---- MODULE Spec2Model ----
(***************************************************************************)
(* Vibe-Coder: the plan editor (src/plan_editor.py) and the markdown       *)
(* repair pipeline (src/utils.py, duplicated in src/app.py).               *)
(*                                                                         *)
(* Documents are strings, handled character by character as the Python     *)
(* code handles them.  Characters outside ASCII cannot be written in a     *)
(* string literal of this language; each one the code names stands as one  *)
(* otherwise unused ASCII character (see TARGET, ROCKET, ... below), and   *)
(* NonAsciiChars says which characters count as non-ASCII.                 *)
(***************************************************************************)
EXTENDS Integers, Sequences, FiniteSets, TLC

VARIABLES
    sections,          \* PlanEditor.sections: the parsed sections, in order
    original_content,  \* PlanEditor.original_content
    modified_content,  \* PlanEditor.modified_content
    edit_history,      \* PlanEditor.edit_history
    now,               \* the wall clock datetime.now() reads
    last,              \* the last call made on the editor and what it returned
    plan_content,      \* the plan the UI holds and hands to the editor
    document,          \* the generated document the caller of the pipeline holds
    pipeline_module,   \* the module whose copy of the pipeline runs: utils or app
    clock_year,        \* datetime.now().year
    pipe_last,         \* the last call made on the pipeline and what it did
    runs,              \* the calls made on the pipeline so far
    users,             \* what each user of the web UI holds: the plan, the
                       \* sections shown for editing, the last answer
    caller,            \* the user whose request was handled last
    parsed_by,         \* the user whose plan the shared editor parsed last
    fetching           \* the call of fetch_knowledge_from_url_via_mcp under
                       \* way: the URL, the position in the function, the
                       \* services called with their results, the return

editorVars ==
    <<sections, original_content, modified_content, edit_history, now, last,
      plan_content>>

pipeVars == <<document, pipeline_module, clock_year, pipe_last, runs>>

sessionVars == <<users, caller, parsed_by>>

fetchVars == <<fetching>>

-----------------------------------------------------------------------------
(* Characters *)

\* Stand-ins, one ASCII character each, for the characters a string literal
\* cannot hold; none of them occurs as itself in the program's patterns.
BACKTICK == "'"        \* U+0060, the backtick
TARGET   == "%"        \* U+1F3AF, the emoji of '## <target> ' headings
ROCKET   == "^"        \* U+1F680
CLIPBOARD == "&"       \* U+1F4CB
ROBOT    == "!"        \* U+1F916
ZAP      == "~"        \* U+26A1
FWCOLON  == ";"        \* U+FF1A, the full-width colon
CJK_DI   == "{"        \* U+7B2C
CJK_JIE  == "}"        \* U+9636
CJK_DUAN == "<"        \* U+6BB5
CJK      == "$"        \* any other character of a non-Latin script
\* the characters outside \x00-\x7F
NonAsciiChars ==
    {TARGET, ROCKET, CLIPBOARD, ROBOT, ZAP, FWCOLON, CJK_DI, CJK_JIE, CJK_DUAN, CJK}
\* the code fence, three backticks
Fence == BACKTICK \o BACKTICK \o BACKTICK

UpperChars == {"A","B","C","D","E","F","G","H","I","J","K","L","M",
               "N","O","P","Q","R","S","T","U","V","W","X","Y","Z"}
DigitChars == {"0","1","2","3","4","5","6","7","8","9"}
\* what str.strip() removes and what \s matches
SpaceChars == {" ", "\t", "\n", "\r", "\f"}

UpperSeq == <<"A","B","C","D","E","F","G","H","I","J","K","L","M",
              "N","O","P","Q","R","S","T","U","V","W","X","Y","Z">>
LowerSeq == <<"a","b","c","d","e","f","g","h","i","j","k","l","m",
              "n","o","p","q","r","s","t","u","v","w","x","y","z">>

CharAt(s, i) == SubSeq(s, i, i)

\* str.upper() of one character
UpperChar(c) ==
    IF \E k \in 1..26 : LowerSeq[k] = c
    THEN UpperSeq[CHOOSE k \in 1..26 : LowerSeq[k] = c]
    ELSE c

\* str.lower() of one character
LowerChar(c) ==
    IF c \in UpperChars
    THEN LowerSeq[CHOOSE k \in 1..26 : UpperSeq[k] = c]
    ELSE c

\* the least member of a non-empty set of integers
Least(S) == CHOOSE x \in S : \A y \in S : x <= y

RECURSIVE Lower(_)
\* str.lower(), half by half
Lower(s) ==
    IF Len(s) = 0 THEN ""
    ELSE IF Len(s) = 1 THEN LowerChar(s)
    ELSE Lower(SubSeq(s, 1, Len(s) \div 2)) \o Lower(SubSeq(s, Len(s) \div 2 + 1, Len(s)))

\* str.startswith(p)
StartsWith(s, p) == Len(s) >= Len(p) /\ SubSeq(s, 1, Len(p)) = p

\* p in s
Contains(s, p) ==
    \E i \in 1..(Len(s) - Len(p) + 1) : SubSeq(s, i, i + Len(p) - 1) = p

\* s.count(c) for a single character c
Count(s, c) == Cardinality({i \in 1..Len(s) : CharAt(s, i) = c})

\* the number of characters of cs that s goes on with from position i
LeadRun(s, i, cs) ==
    Least({j \in i..Len(s) : CharAt(s, j) \notin cs} \cup {Len(s) + 1}) - i

\* the number of characters of cs that s ends with, up to position i
TrailRun(s, i, cs) ==
    i + Least({-j : j \in {j \in 1..i : CharAt(s, j) \notin cs} \cup {0}})

\* str.lstrip(chars)
LStrip(s, cs) == SubSeq(s, LeadRun(s, 1, cs) + 1, Len(s))

\* str.strip(): whitespace off both ends
Strip(s) ==
    LET t == LStrip(s, SpaceChars)
    IN  SubSeq(t, 1, Len(t) - TrailRun(t, Len(t), SpaceChars))

RECURSIVE SplitFrom(_, _, _)
\* the pieces of s from position start on
SplitFrom(s, sep, start) ==
    LET seps == {i \in start..Len(s) : CharAt(s, i) = sep}
    IN  IF seps = {} THEN <<SubSeq(s, start, Len(s))>>
        ELSE <<SubSeq(s, start, Least(seps) - 1)>> \o SplitFrom(s, sep, Least(seps) + 1)

\* str.split(sep) for a single character sep: always at least one piece
Split(s, sep) == SplitFrom(s, sep, 1)

RECURSIVE JoinFrom(_, _, _)
JoinFrom(parts, sep, i) ==
    IF i > Len(parts) THEN ""
    ELSE IF i = Len(parts) THEN parts[i]
    ELSE parts[i] \o sep \o JoinFrom(parts, sep, i + 1)

\* sep.join(parts)
Join(parts, sep) == JoinFrom(parts, sep, 1)

-----------------------------------------------------------------------------
(* Regular expressions, as Python's re module matches them.                *)
(* A pattern is a sequence of items.  Every pattern of the program is such *)
(* a sequence: literals, repeated character classes, capture groups that   *)
(* are not themselves repeated, an alternation of literals, and $.         *)

Lit(s) == [k |-> "lit", s |-> s]
\* a character class repeated lo..hi times (hi = -1: no upper limit);
\* neg: the class is the complement of set; lazy: the fewest first
Rep(set, neg, lo, hi, lazy) ==
    [k |-> "rep", set |-> set, neg |-> neg, lo |-> lo, hi |-> hi, lazy |-> lazy]
One(set)      == Rep(set, FALSE, 1, 1, FALSE)       \* [abc]
Star(set)     == Rep(set, FALSE, 0, -1, FALSE)      \* [abc]*
Plus(set)     == Rep(set, FALSE, 1, -1, FALSE)      \* [abc]+
NotOne(set)   == Rep(set, TRUE, 1, 1, FALSE)        \* [^abc]
NotStar(set)  == Rep(set, TRUE, 0, -1, FALSE)       \* [^abc]*
NotPlus(set)  == Rep(set, TRUE, 1, -1, FALSE)       \* [^abc]+
Times(set, n) == Rep(set, FALSE, n, n, FALSE)       \* [abc]{n}
AtLeast(set, n) == Rep(set, FALSE, n, -1, FALSE)    \* [abc]{n,}
Opt(c)        == Rep({c}, FALSE, 0, 1, FALSE)       \* c?
Open(g)  == [k |-> "open", g |-> g]                 \* ( of group g
Close(g) == [k |-> "close", g |-> g]                \* ) of group g
Alt(opts) == [k |-> "alt", opts |-> opts]           \* (a|b), literals
Eol == [k |-> "eol"]                                \* $ under re.MULTILINE

NoMatch == [ok |-> FALSE, start |-> 0, end |-> 0, gs |-> <<0, 0, 0>>, ge |-> <<0, 0, 0>>]

\* under re.IGNORECASE a class holds a letter in both cases
InClass(c, item, ic) ==
    (\/ c \in item.set
     \/ ic /\ (LowerChar(c) \in item.set \/ UpperChar(c) \in item.set)) # item.neg

LitAt(s, i, lit, ic) ==
    /\ i + Len(lit) - 1 <= Len(s)
    /\ IF ic THEN /\ Len(lit) > 0 => LowerChar(CharAt(s, i)) = LowerChar(CharAt(lit, 1))
                  /\ Lower(SubSeq(s, i, i + Len(lit) - 1)) = Lower(lit)
             ELSE SubSeq(s, i, i + Len(lit) - 1) = lit

\* how many characters from position i on are in the class, up to limit
\* (-1: no limit)
ClassRun(s, i, item, limit, ic) ==
    LET run == Least({j \in i..Len(s) : ~InClass(CharAt(s, j), item, ic)}
                     \cup {Len(s) + 1}) - i
    IN  IF limit >= 0 /\ run > limit THEN limit ELSE run

\* the greatest member of a non-empty set of integers
Greatest(S) == CHOOSE x \in S : \A y \in S : x >= y

RECURSIVE MatchFrom(_, _, _, _, _, _, _)
RECURSIVE Settle(_, _, _, _, _, _, _, _)
RECURSIVE TryRep(_, _, _, _, _, _, _, _)
RECURSIVE TryAlt(_, _, _, _, _, _, _, _)

\* the match of items k.. of re at position i of s that the backtracking
\* matcher finds first; ic is re.IGNORECASE
MatchFrom(re, k, s, i, gs, ge, ic) ==
    IF k > Len(re)
    THEN [ok |-> TRUE, start |-> 0, end |-> i, gs |-> gs, ge |-> ge]
    ELSE LET it == re[k] IN
      CASE it.k = "lit" ->
             IF LitAt(s, i, it.s, ic)
             THEN MatchFrom(re, k + 1, s, i + Len(it.s), gs, ge, ic)
             ELSE NoMatch
        [] it.k = "open" ->
             MatchFrom(re, k + 1, s, i, [gs EXCEPT ![it.g] = i], ge, ic)
        [] it.k = "close" ->
             MatchFrom(re, k + 1, s, i, gs, [ge EXCEPT ![it.g] = i], ic)
        [] it.k = "eol" ->
             IF i = Len(s) + 1 \/ (i <= Len(s) /\ CharAt(s, i) = "\n")
             THEN MatchFrom(re, k + 1, s, i, gs, ge, ic)
             ELSE NoMatch
        [] it.k = "alt" -> TryAlt(re, k, s, i, gs, ge, ic, 1)
        [] it.k = "rep" ->
             LET run == ClassRun(s, i, it, it.hi, ic)
             IN  IF run < it.lo THEN NoMatch
                 ELSE TryRep(re, k, s, i, gs, ge, ic, run)

\* item k with the count the matcher settles on: of the counts in fit, the
\* most (lazy: the fewest)
Settle(re, k, s, i, gs, ge, ic, fit) ==
    IF fit = {} THEN NoMatch
    ELSE MatchFrom(re, k + 1, s,
                   i + (IF re[k].lazy THEN Least(fit) ELSE Greatest(fit)), gs, ge, ic)

\* item k repeated: fit are the counts lo..run after which the rest of the
\* pattern matches
TryRep(re, k, s, i, gs, ge, ic, run) ==
    Settle(re, k, s, i, gs, ge, ic,
           {n \in re[k].lo..run : MatchFrom(re, k + 1, s, i + n, gs, ge, ic).ok})

\* an alternation: the first option, from o on, with which the rest matches
TryAlt(re, k, s, i, gs, ge, ic, o) ==
    IF o > Len(re[k].opts) THEN NoMatch
    ELSE IF /\ LitAt(s, i, re[k].opts[o], ic)
            /\ MatchFrom(re, k + 1, s, i + Len(re[k].opts[o]), gs, ge, ic).ok
    THEN MatchFrom(re, k + 1, s, i + Len(re[k].opts[o]), gs, ge, ic)
    ELSE TryAlt(re, k, s, i, gs, ge, ic, o + 1)

\* the match of re that starts at position i of s (re.match for i = 1);
\* start..end-1 is the matched text
MatchAt(re, s, i, ic) ==
    [MatchFrom(re, 1, s, i, <<0, 0, 0>>, <<0, 0, 0>>, ic) EXCEPT !.start = i]

\* the positions from i on where a match of re starts
Hits(re, s, i, ic) == {j \in i..(Len(s) + 1) : MatchFrom(re, 1, s, j, <<0, 0, 0>>, <<0, 0, 0>>, ic).ok}

\* the match at the first of the positions hits
FirstHit(re, s, hits, ic) ==
    IF hits = {} THEN NoMatch ELSE MatchAt(re, s, Least(hits), ic)

\* re.search(re, s): the leftmost match from position i on
SearchFrom(re, s, i, ic) == FirstHit(re, s, Hits(re, s, i, ic), ic)

\* bool(re.search(re, s))
Found(re, s, ic) == Hits(re, s, 1, ic) # {}

\* match.group(g)
Group(s, m, g) == SubSeq(s, m.gs[g], m.ge[g] - 1)

-----------------------------------------------------------------------------
(* urllib.parse.urlparse, as far as validate_url reads its result *)

LetterChars == UpperChars \cup {LowerSeq[k] : k \in 1..26}
\* urllib.parse.scheme_chars
SchemeChars == LetterChars \cup DigitChars \cup {"+", "-", "."}
\* the characters urlsplit strips off the front of a URL: C0 controls and space
C0OrSpace == {" ", "\t", "\n", "\r", "\f"}
\* the characters urlsplit removes from a URL wherever they are
UnsafeUrlChars == {"\t", "\r", "\n"}

RECURSIVE Without(_, _)
\* s with the characters of cs removed, half by half
Without(s, cs) ==
    IF Len(s) = 0 THEN ""
    ELSE IF Len(s) = 1 THEN (IF s \in cs THEN "" ELSE s)
    ELSE Without(SubSeq(s, 1, Len(s) \div 2), cs)
         \o Without(SubSeq(s, Len(s) \div 2 + 1, Len(s)), cs)

\* str.find(c): the position, counted from 1, of the first c in s; 0 if none
Find(s, c) ==
    IF \E i \in 1..Len(s) : CharAt(s, i) = c
    THEN CHOOSE i \in 1..Len(s) :
            CharAt(s, i) = c /\ \A j \in 1..(i - 1) : CharAt(s, j) # c
    ELSE 0

\* the bracketed hosts ipaddress.ip_address takes for an IPv6 address, of those
\* the documents of the model can hold
IPv6Literals == {"::1"}

\* netloc.partition('[')[2].partition(']')[0]
BracketedHost(netloc) ==
    LET rest == SubSeq(netloc, Find(netloc, "[") + 1, Len(netloc))
    IN  IF Contains(rest, "]") THEN SubSeq(rest, 1, Find(rest, "]") - 1) ELSE rest

\* urlsplit's tests of the netloc: one bracket and not the other raises
\* ValueError, so does a bracketed host that is no IP literal, and so does
\* a character that NFKC-normalises to one of /?#@: (of the stand-ins, the
\* full-width colon)
NetlocRaises(netloc) ==
    \/ (Contains(netloc, "[") /\ ~Contains(netloc, "]"))
    \/ (Contains(netloc, "]") /\ ~Contains(netloc, "["))
    \/ /\ Contains(netloc, "[") /\ Contains(netloc, "]")
       /\ BracketedHost(netloc) \notin IPv6Literals
    \/ Contains(netloc, FWCOLON)

Parsed(scheme, netloc) ==
    [raises |-> NetlocRaises(netloc), scheme |-> scheme, netloc |-> netloc]

\* if url[:2] == '//': netloc, url = _splitnetloc(url, 2)
SplitNetloc(scheme, url) ==
    Parsed(scheme,
           IF StartsWith(url, "//")
           THEN SubSeq(url, 3, 2 + ClassRun(url, 3, NotStar({"/", "?", "#"}), -1, FALSE))
           ELSE "")

\* i = url.find(':'), and the scheme if the text before it is one
SplitScheme(url, i) ==
    IF /\ i > 1
       /\ CharAt(url, 1) \in LetterChars
       /\ \A j \in 1..(i - 1) : CharAt(url, j) \in SchemeChars
    THEN SplitNetloc(Lower(SubSeq(url, 1, i - 1)), SubSeq(url, i + 1, Len(url)))
    ELSE SplitNetloc("", url)

\* the url with the leading blanks and the unsafe characters taken out
Cleaned(url) == SplitScheme(url, Find(url, ":"))

\* urlparse(url): [raises, scheme, netloc]
urlparse(url) == Cleaned(Without(LStrip(url, C0OrSpace), UnsafeUrlChars))

\* validate_url(url): all([result.scheme, result.netloc]), False on ValueError
validate_url(url) ==
    LET result == urlparse(url)
    IN  ~result.raises /\ result.scheme # "" /\ result.netloc # ""

-----------------------------------------------------------------------------
(* re.sub and the replacements of src/utils.py and src/app.py *)

\* a replacement template: text and references to groups
Txt(s) == [g |-> 0, s |-> s]
Ref(g) == [g |-> g, s |-> ""]
Template(t) == [fn |-> "template", t |-> t, year |-> 0]
Function(fn) == [fn |-> fn, t |-> <<>>, year |-> 0]

RECURSIVE ExpandTemplate(_, _, _, _)
ExpandTemplate(t, k, s, m) ==
    IF k > Len(t) THEN ""
    ELSE (IF t[k].g = 0 THEN t[k].s ELSE Group(s, m, t[k].g))
         \o ExpandTemplate(t, k + 1, s, m)

\* match.groups() is not empty: the pattern has a group
HasGroups(re) == \E k \in 1..Len(re) : re[k].k = "open"

\* replace_fake_link(match) of validate_and_clean_links
replace_fake_link(re, s, m) ==
    IF HasGroups(re)
    THEN "**" \o Group(s, m, 1) \o "** (Based on industry standards)"
    ELSE "(Based on industry best practices)"

trusted_domains ==
    <<"docs.python.org", "nodejs.org", "reactjs.org", "vuejs.org",
      "angular.io", "flask.palletsprojects.com", "fastapi.tiangolo.com",
      "docker.com", "kubernetes.io", "github.com", "gitlab.com",
      "stackoverflow.com", "developer.mozilla.org", "w3schools.com",
      "jwt.io", "redis.io", "mongodb.com", "postgresql.org",
      "mysql.com", "nginx.org", "apache.org">>

\* for domain in trusted_domains: if domain in link_url.lower()
IsTrusted(link_url) ==
    \E d \in 1..Len(trusted_domains) : Contains(Lower(link_url), trusted_domains[d])

\* what validate_link returns for a link
ValidatedLink(link_text, link_url) ==
    IF ~validate_url(link_url)
    THEN "**" \o link_text \o "** (Reference Resource)"
    ELSE IF IsTrusted(link_url)
    THEN "[" \o link_text \o "](" \o link_url \o ")"
    ELSE "**" \o link_text \o "** (Technical Reference)"

\* validate_link(match) of enhance_real_links
validate_link(s, m) == ValidatedLink(Group(s, m, 1), Group(s, m, 2))

\* replace_old_date(match) of fix_date_consistency
\* parts = old_date.split('-'); f"{current_year}-{parts[1]}-{parts[2]}"
Redated(parts, current_year) ==
    ToString(current_year) \o "-" \o parts[2] \o "-" \o parts[3]

\* what replace_old_date returns for a date
NewDate(old_date, current_year) ==
    IF Contains(old_date, "-") THEN Redated(Split(old_date, "-"), current_year)
    ELSE ToString(current_year) \o "year"

\* replace_old_date(match) of fix_date_consistency
replace_old_date(s, m, current_year) ==
    NewDate(SubSeq(s, m.start, m.end - 1), current_year)

\* clean_mermaid_block(match) of enhance_mermaid_blocks
clean_mermaid_block(s, m) ==
    Fence \o "mermaid\n" \o Group(s, m, 1) \o "\n" \o Fence

\* what re.sub puts in the place of match m of re in s
Expand(re, repl, s, m) ==
    CASE repl.fn = "template" -> ExpandTemplate(repl.t, 1, s, m)
      [] repl.fn = "replace_fake_link" -> replace_fake_link(re, s, m)
      [] repl.fn = "validate_link" -> validate_link(s, m)
      [] repl.fn = "replace_old_date" -> replace_old_date(s, m, repl.year)
      [] repl.fn = "clean_mermaid_block" -> clean_mermaid_block(s, m)

RECURSIVE SubFrom(_, _, _, _, _)
RECURSIVE SubMatch(_, _, _, _, _, _)
\* re.sub from position i on, m being the leftmost match from there: it is
\* replaced and the scan goes on behind it
SubMatch(re, repl, s, i, m, ic) ==
    IF ~m.ok THEN SubSeq(s, i, Len(s))
    ELSE SubSeq(s, i, m.start - 1) \o Expand(re, repl, s, m)
         \o SubFrom(re, repl, s, m.end, ic)

\* re.sub from position i on.  No pattern of the program matches the empty
\* string.
SubFrom(re, repl, s, i, ic) == SubMatch(re, repl, s, i, SearchFrom(re, s, i, ic), ic)

\* re.sub(re, repl, s)
Sub(re, repl, s, ic) == SubFrom(re, repl, s, 1, ic)

RECURSIVE SubAll(_, _, _, _)
\* for pattern, replacement in fixes: content = re.sub(pattern, replacement, content)
\* (each result is a finished string before the next pattern runs over it)
SubAll(fixes, k, content, ic) ==
    IF k > Len(fixes) \/ Len(content) < 0 THEN content
    ELSE SubAll(fixes, k + 1, Sub(fixes[k][1], fixes[k][2], content, ic), ic)

-----------------------------------------------------------------------------
(* The stages of the pipeline: src/utils.py, and the copies in src/app.py *)

ArrowHead == <<Open(1), One(UpperChars), Star(SpaceChars), Lit("-->"), Close(1)>>
Label(pre, post) ==
    <<Open(1), Plus(UpperChars), Close(1), Lit("[" \o pre),
      Open(2), NotPlus({"\""}), Close(2), Lit(post \o "]")>>
QuotedLabel == Template(<<Ref(1), Txt("[\""), Ref(2), Txt("\"]")>>)

\* fixes of fix_mermaid_syntax, in order
mermaid_fixes ==
    << << <<Lit("## " \o TARGET \o " ")>> \o ArrowHead, Template(<<Ref(1)>>) >>,
       << <<Lit("## " \o TARGET \o " "), Open(1), Lit("section "), NotPlus({")"}), Close(1)>>,
          Template(<<Ref(1)>>) >>,
       << <<Open(1), Alt(<<"\n", "\r\n">>), Close(1), Lit("## " \o TARGET \o " "),
            Open(2), One(UpperChars), Star(SpaceChars), Lit("-->"), Close(2)>>,
          Template(<<Txt("\n    "), Ref(2)>>) >>,
       << <<Open(1), Alt(<<"\n", "\r\n">>), Close(1), Lit("## " \o TARGET \o " "),
            Open(2), Lit("section "), NotPlus({"\n"}), Close(2)>>,
          Template(<<Txt("\n    "), Ref(2)>>) >>,
       << <<Lit("## " \o TARGET \o " "), Open(1), One(UpperChars), Lit("["),
            NotPlus({"]"}), Lit("]"), Close(1)>>,
          Template(<<Ref(1)>>) >>,
       << <<Lit(Fence \o "mermaid\n## " \o TARGET)>>, Template(<<Txt(Fence \o "mermaid")>>) >>,
       << <<Lit("\n#"), Plus({"#"}), Lit(" " \o TARGET \o " "), Open(1), One(UpperChars), Close(1)>>,
          Template(<<Txt("\n    "), Ref(1)>>) >>,
       << Label("\"", "\""), QuotedLabel >>,
       << Label("\"\"", "\"\""), QuotedLabel >>,
       << Label("\"" \o ZAP \o "\"", "\"\""), QuotedLabel >>,
       << <<Open(1), Plus(UpperChars), Close(1), Lit("["),
            Open(2), NotStar({"]"}), One(NonAsciiChars), NotStar({"]"}), Close(2), Lit("]")>>,
          QuotedLabel >>,
       << <<Lit("graph TB\n"), Star(SpaceChars), Lit("graph")>>, Template(<<Txt("graph TB")>>) >>,
       << <<Lit("flowchart TD\n"), Star(SpaceChars), Lit("flowchart")>>,
          Template(<<Txt("flowchart TD")>>) >>,
       << <<Lit("-->")>>, Template(<<Txt(" --> ")>>) >>,
       << <<Lit("-->"), Open(1), One(UpperChars), Close(1)>>, Template(<<Txt("--> "), Ref(1)>>) >>,
       << <<Open(1), One(UpperChars), Close(1), Lit("-->")>>, Template(<<Ref(1), Txt(" -->")>>) >> >>

\* the pattern of enhance_mermaid_blocks, under re.DOTALL
mermaid_pattern ==
    <<Lit(Fence \o "mermaid\n"), Open(1), Rep({}, TRUE, 0, -1, TRUE), Close(1),
      Lit("\n" \o Fence)>>

enhance_mermaid_blocks(content) ==
    Sub(mermaid_pattern, Function("clean_mermaid_block"), content, FALSE)

fix_mermaid_syntax(content) ==
    enhance_mermaid_blocks(SubAll(mermaid_fixes, 1, content, FALSE))

link_pattern ==
    <<Lit("["), Open(1), NotPlus({"]"}), Close(1), Lit("]("),
      Open(2), NotPlus({")"}), Close(2), Lit(")")>>

enhance_real_links(content) ==
    Sub(link_pattern, Function("validate_link"), content, FALSE)

Http == <<Lit("http"), Opt("s"), Lit("://")>>
\* \[([^\]]+)\]\( ... \): a fake link in markdown form
MarkdownLink(url) ==
    <<Lit("["), Open(1), NotPlus({"]"}), Close(1), Lit("](")>> \o url \o <<Lit(")")>>
SpaceOrParen == SpaceChars \cup {")"}

\* the patterns both copies of validate_and_clean_links end with
common_fake_link_patterns ==
    << MarkdownLink(Http \o <<Lit("medium.com/@"), NotPlus({"/"}), Lit("/"),
            NotStar({")"}), AtLeast(DigitChars, 9), NotStar({")"})>>),
       MarkdownLink(Http \o <<Lit("github.com/"), NotPlus({"/"}), Lit("/"),
            NotStar({"/", ")"}), Lit("education"), NotStar({")"})>>),
       MarkdownLink(Http \o <<Lit("www.kdnuggets.com/"), Times(DigitChars, 4), Lit("/"),
            Times(DigitChars, 2), Lit("/"), NotStar({")"})>>),
       MarkdownLink(<<Lit("https0://"), NotPlus({")"})>>),
       Http \o <<Lit("blog.csdn.net/username/article/details/"), Plus(DigitChars)>>,
       Http \o <<Lit("github.com/username/"), NotPlus(SpaceOrParen)>>,
       Http \o <<NotStar({"/"}), Lit("example.com"), NotStar(SpaceOrParen)>>,
       Http \o <<NotStar({"/"}), Lit("xxx.com"), NotStar(SpaceOrParen)>>,
       Http \o <<NotStar({"/"}), Lit("test.com"), NotStar(SpaceOrParen)>>,
       Http \o <<Lit("localhost"), NotStar(SpaceOrParen)>>,
       <<Lit("https0://"), NotPlus(SpaceOrParen)>>,
       Http \o <<Lit("medium.com/@"), NotPlus({"/"}), Lit("/"),
            NotStar(SpaceChars), AtLeast(DigitChars, 9), NotStar(SpaceChars)>>,
       Http \o <<Lit("github.com/"), NotPlus({"/"}), Lit("/"),
            NotStar({"/"} \cup SpaceChars), Lit("education"), NotStar(SpaceChars)>>,
       Http \o <<Lit("www.kdnuggets.com/"), Times(DigitChars, 4), Lit("/"),
            Times(DigitChars, 2), Lit("/"), NotStar(SpaceChars)>> >>

\* the markdown forms only the copy in src/app.py starts with
app_fake_link_patterns ==
    << MarkdownLink(Http \o <<Lit("blog.csdn.net/username/article/details/"), Plus(DigitChars)>>),
       MarkdownLink(Http \o <<Lit("github.com/username/"), NotPlus({")"})>>),
       MarkdownLink(Http \o <<NotStar({"/"}), Lit("example.com"), NotStar({")"})>>),
       MarkdownLink(Http \o <<NotStar({"/"}), Lit("xxx.com"), NotStar({")"})>>),
       MarkdownLink(Http \o <<NotStar({"/"}), Lit("test.com"), NotStar({")"})>>),
       MarkdownLink(Http \o <<Lit("localhost"), NotStar({")"})>>) >>

\* fake_link_patterns of validate_and_clean_links in module impl
fake_link_patterns(impl) ==
    IF impl = "app" THEN app_fake_link_patterns \o common_fake_link_patterns
    ELSE common_fake_link_patterns

RECURSIVE CleanFakeLinks(_, _, _)
\* for pattern in fake_link_patterns: content = re.sub(pattern, replace_fake_link, ...)
\* (each result is a finished string before the next pattern runs over it)
CleanFakeLinks(patterns, k, content) ==
    IF k > Len(patterns) \/ Len(content) < 0 THEN content
    ELSE CleanFakeLinks(patterns, k + 1,
            Sub(patterns[k], Function("replace_fake_link"), content, TRUE))

validate_and_clean_links(impl, content) ==
    enhance_real_links(CleanFakeLinks(fake_link_patterns(impl), 1, content))

old_year_patterns ==
    << <<Lit("202"), One({"0", "1", "2", "3"}), Lit("-"), Times(DigitChars, 2),
         Lit("-"), Times(DigitChars, 2)>>,
       <<Lit("202"), One({"0", "1", "2", "3"}), Lit("year")>> >>

fix_date_consistency(current_year, content) ==
    LET repl == [Function("replace_old_date") EXCEPT !.year = current_year]
    IN  Sub(old_year_patterns[2], repl, Sub(old_year_patterns[1], repl, content, FALSE), FALSE)

\* fixes of fix_formatting_issues, in order
formatting_fixes ==
    << << <<Lit("#### " \o ROCKET \o " **"), Eol>>,
          Template(<<Txt("#### " \o ROCKET \o " **Development Stage**")>>) >>,
       << <<Lit("#### " \o ROCKET \o " Phase" \o FWCOLON \o "**")>>,
          Template(<<Txt("#### " \o ROCKET \o " **Stage 1**:")>>) >>,
       << <<Lit("### " \o CLIPBOARD \o " "), Open(1), Plus(DigitChars), Close(1),
            Lit(". **" \o CJK_DI), Plus(DigitChars), Lit(CJK_JIE \o CJK_DUAN)>>,
          Template(<<Txt("### " \o CLIPBOARD \o " "), Ref(1), Txt(". **Stage "), Ref(1)>>) >>,
       << <<Lit("\n## " \o TARGET \o " | "), Open(1), NotPlus({"|"}), Close(1), Lit(" | "),
            Open(2), NotPlus({"|"}), Close(2), Lit(" | "),
            Open(3), NotPlus({"|"}), Close(3), Lit(" |")>>,
          Template(<<Txt("\n| "), Ref(1), Txt(" | "), Ref(2), Txt(" | "), Ref(3), Txt(" |")>>) >>,
       << <<Lit("\n### " \o CLIPBOARD \o " "), Open(1), Plus(DigitChars), Close(1),
            Lit(". **"), Open(2), NotPlus({"*"}), Close(2), Lit("**" \o FWCOLON)>>,
          Template(<<Txt("\n**"), Ref(1), Txt(". "), Ref(2), Txt("**:")>>) >>,
       << <<Lit("\n### " \o CLIPBOARD \o " "), Open(1), Plus(DigitChars), Close(1),
            Lit(". **"), Open(2), NotPlus({"*"}), Close(2), Lit("**"), Eol>>,
          Template(<<Txt("\n**"), Ref(1), Txt(". "), Ref(2), Txt("**")>>) >>,
       << <<AtLeast({"\n"}, 4)>>, Template(<<Txt("\n\n\n")>>) >>,
       << <<Lit("##\n\n---")>>,
          Template(<<Txt("## Summary\n\nAbove is the complete development plan and technical solution.\n\n---")>>) >> >>

fix_formatting_issues(content) == SubAll(formatting_fixes, 1, content, FALSE)

structure_checks ==
    <<"# " \o ROCKET \o " AI-generated development plan",
      "## " \o ROBOT \o " AI programming assistant prompts",
      Fence \o "mermaid",
      "Project development Gantt chart">>

\* fake_link_patterns of calculate_quality_score
scored_fake_link_patterns ==
    << <<Lit("blog.csdn.net/username")>>, <<Lit("github.com/username")>>,
       <<Lit("example.com")>>, <<Lit("xxx.com")>> >>

mermaid_issues ==
    << <<Lit("## " \o TARGET \o " "), One(UpperChars)>>,
       <<Lit(Fence \o "mermaid\n## " \o TARGET)>> >>

recent_date_pattern ==
    <<Lit("202"), One({"5", "6", "7", "8", "9"}), Lit("-"),
      Times(DigitChars, 2), Lit("-"), Times(DigitChars, 2)>>

\* any(re.search(pattern, s) for pattern in patterns)
FoundAny(patterns, s, ic) == \E k \in 1..Len(patterns) : Found(patterns[k], s, ic)

\* min(score, max_score)
Min(a, b) == IF a < b THEN a ELSE b

\* calculate_quality_score with a structural marker counted as often as it
\* occurs
calculate_quality_score_per_occurrence(content) ==
    IF content = "" THEN 0
    ELSE Min((IF Len(content) > 500 THEN 15 ELSE 0)
             + (IF Len(content) > 2000 THEN 15 ELSE 0)
             + 6 * Cardinality({p \in (1..Len(structure_checks)) \X (1..Len(content)) :
                                  /\ p[2] + Len(structure_checks[p[1]]) - 1 <= Len(content)
                                  /\ SubSeq(content, p[2], p[2] + Len(structure_checks[p[1]]) - 1)
                                       = structure_checks[p[1]]})
             + (IF FoundAny(<<recent_date_pattern>>, content, FALSE) THEN 10 ELSE 0)
             + (IF ~FoundAny(<<old_year_patterns[1]>>, content, FALSE) THEN 10 ELSE 0)
             + (IF ~FoundAny(scored_fake_link_patterns, content, TRUE) THEN 15 ELSE 0)
             + (IF ~FoundAny(mermaid_issues, content, FALSE) THEN 10 ELSE 0),
             100)

\* calculate_quality_score with the points of a structural marker taken off
\* the points for the length
calculate_quality_score_marks_down(content) ==
    IF content = "" THEN 0
    ELSE Min((IF Len(content) > 500 THEN 15 ELSE 0)
             + (IF Len(content) > 2000 THEN 15 ELSE 0)
             + 6 * (Len(structure_checks)
                    - Cardinality({c \in 1..Len(structure_checks) :
                                     Contains(content, structure_checks[c])}))
             + (IF FoundAny(<<recent_date_pattern>>, content, FALSE) THEN 10 ELSE 0)
             + (IF ~FoundAny(<<old_year_patterns[1]>>, content, FALSE) THEN 10 ELSE 0)
             + (IF ~FoundAny(scored_fake_link_patterns, content, TRUE) THEN 15 ELSE 0)
             + (IF ~FoundAny(mermaid_issues, content, FALSE) THEN 10 ELSE 0),
             100)

calculate_quality_score(content) ==
    IF content = "" THEN 0
    ELSE Min((IF Len(content) > 500 THEN 15 ELSE 0)
             + (IF Len(content) > 2000 THEN 15 ELSE 0)
             + 6 * Cardinality({c \in 1..Len(structure_checks) :
                                  Contains(content, structure_checks[c])})
             + (IF FoundAny(<<recent_date_pattern>>, content, FALSE) THEN 10 ELSE 0)
             + (IF ~FoundAny(<<old_year_patterns[1]>>, content, FALSE) THEN 10 ELSE 0)
             + (IF ~FoundAny(scored_fake_link_patterns, content, TRUE) THEN 15 ELSE 0)
             + (IF ~FoundAny(mermaid_issues, content, FALSE) THEN 10 ELSE 0),
             100)

\* a value handed to the pipeline: a string, or Python's None
Str(s) == [is_none |-> FALSE, text |-> s]
NoContent == [is_none |-> TRUE, text |-> ""]

\* what a call of the pipeline did: the value returned, the functions called
\* in order, the fixes it logged, the two scores, whether it raised
Ran(ret, calls, fixes_applied, initial_quality_score, final_quality_score, raised) ==
    [ret |-> ret, calls |-> calls, fixes_applied |-> fixes_applied,
     initial_quality_score |-> initial_quality_score,
     final_quality_score |-> final_quality_score, raised |-> raised]

\* if content != original_content: fixes_applied.append(fix)
Applied(before, after, fix) == IF after # before THEN <<fix>> ELSE <<>>

\* the end of validate_and_fix_content: the second score, the log, the return
Finish(content, fixed_mermaid, cleaned_links, fixed_dates, fixed_formatting) ==
    Ran(Str(fixed_formatting),
        <<"calculate_quality_score", "fix_mermaid_syntax",
          "validate_and_clean_links", "fix_date_consistency",
          "fix_formatting_issues", "calculate_quality_score">>,
        Applied(content, fixed_mermaid, "Fixed Mermaid diagram syntax")
          \o Applied(fixed_mermaid, cleaned_links, "Cleaned fake links")
          \o Applied(cleaned_links, fixed_dates, "Updated expired dates")
          \o Applied(fixed_dates, fixed_formatting, "Fixed formatting issues"),
        calculate_quality_score(content),
        calculate_quality_score(fixed_formatting),
        FALSE)

\* 4. Fix formatting issues
FormattingStage(content, fixed_mermaid, cleaned_links, fixed_dates) ==
    Finish(content, fixed_mermaid, cleaned_links, fixed_dates,
           fix_formatting_issues(fixed_dates))

\* 3. Fix date consistency
DateStage(year, content, fixed_mermaid, cleaned_links) ==
    FormattingStage(content, fixed_mermaid, cleaned_links,
                    fix_date_consistency(year, cleaned_links))

\* stage 2 run on what the pipeline was called with, not on the output of
\* stage 1
LinkStage_on_the_input(module, year, content, fixed_mermaid) ==
    DateStage(year, content, fixed_mermaid,
              validate_and_clean_links(module, content))

\* 2. Validate and clean fake links
LinkStage(module, year, content, fixed_mermaid) ==
    DateStage(year, content, fixed_mermaid,
              validate_and_clean_links(module, fixed_mermaid))

\* the first score and the four stages, on a string:
\* 1. Fix Mermaid diagram syntax errors
RunStages(module, year, content) ==
    LinkStage(module, year, content, fix_mermaid_syntax(content))

\* validate_and_fix_content without its first test: the scorer is called on
\* whatever comes, and raises TypeError on None
validate_and_fix_content_unguarded(module, year, content) ==
    IF content.is_none
    THEN Ran(NoContent, <<"calculate_quality_score">>, <<>>, 0, 0, TRUE)
    ELSE RunStages(module, year, content.text)

\* validate_and_fix_content(content), of module utils or app
validate_and_fix_content(module, year, content) ==
    IF content.is_none \/ content.text = ""
    THEN Ran(content, <<>>, <<>>, 0, 0, FALSE)
    ELSE RunStages(module, year, content.text)

-----------------------------------------------------------------------------
(* PlanEditor: src/plan_editor.py *)

\* Python's None where the editor is handed, or holds, a text: a value that
\* is none of the texts
NoText == "<None>"

\* current_section = None
None ==
    [section_id |-> "", title |-> "", content |-> "", section_type |-> "none",
     level |-> 0, start_line |-> 0, end_line |-> 0, is_editable |-> TRUE]

EditableSection(id, title, content, type, level, start, end, editable) ==
    [section_id |-> id, title |-> title, content |-> content,
     section_type |-> type, level |-> level, start_line |-> start,
     end_line |-> end, is_editable |-> editable]

non_editable_patterns ==
    << <<Lit("Generation time")>>,
       <<Lit("AI model")>>,
       <<Lit("Based on user creativity")>>,
       <<Lit("Agent application")>>,
       <<Lit("meta-info")>> >>

\* the patterns are searched, case-sensitively, in the lower-cased title
_is_section_editable(title) ==
    LET title_lower == Lower(title)
    IN  ~ \E p \in 1..Len(non_editable_patterns) :
            Found(non_editable_patterns[p], title_lower, FALSE)

\* if current_section and current_section.content.strip(): append it
SavePrevious(secs, cur) ==
    IF cur # None /\ Strip(cur.content) # "" THEN Append(secs, cur) ELSE secs

IsFence(line) == StartsWith(line, Fence)
IsTableRow(line) == Contains(line, "|") /\ Count(line, "|") >= 2
IsListItem(line) ==
    \/ StartsWith(line, "-") \/ StartsWith(line, "*") \/ StartsWith(line, "+")
    \/ MatchAt(<<Plus(DigitChars), Lit(".")>>, line, 1, FALSE).ok

RECURSIVE CodeBlockEnd(_, _)
\* while i < len(lines) and not lines[i].strip().startswith(fence): i += 1
CodeBlockEnd(lines, i) ==
    IF i < Len(lines) /\ ~IsFence(Strip(lines[i + 1]))
    THEN CodeBlockEnd(lines, i + 1) ELSE i

RECURSIVE TableEnd(_, _)
\* while i < len(lines) and '|' in lines[i] and lines[i].count('|') >= 2: i += 1
TableEnd(lines, i) ==
    IF i < Len(lines) /\ IsTableRow(lines[i + 1])
    THEN TableEnd(lines, i + 1) ELSE i

\* HeadingLevel counting the blank after the # characters too
HeadingLevel_counts_blank(line) == Len(line) - Len(Strip(LStrip(line, {"#"})))

\* CodeSection whose end_line is one past the block's last line
CodeSection_end_past_block(id, line, lines, i, next) ==
    EditableSection(id, "Code Block",
        Join(<<line>> \o SubSeq(lines, i + 2, next), "\n"),
        "code", 0, i, next, TRUE)

\* level = len(line) - len(line.lstrip('#'))
HeadingLevel(line) == Len(line) - Len(LStrip(line, {"#"}))

\* the code section of lines i .. next-1 (counted from 0), line being the
\* stripped opening fence
CodeSection(id, line, lines, i, next) ==
    EditableSection(id, "Code Block",
        Join(<<line>> \o SubSeq(lines, i + 2, next), "\n"),
        "code", 0, i, next - 1, TRUE)

\* the table section of lines i .. next-1, line being the stripped first row
TableSection(id, line, lines, i, next) ==
    EditableSection(id, "Table",
        Join(<<line>> \o SubSeq(lines, i + 2, next), "\n"),
        "table", 0, i, next - 1, TRUE)

RECURSIVE ParseLoop(_, _, _, _, _)
\* the while loop of parse_plan_content from line i (counted from 0) on, and
\* the saving of the last section after it
ParseLoop(lines, i, current_section, section_counter, secs) ==
    IF i >= Len(lines) THEN SavePrevious(secs, current_section)
    ELSE
    LET line == Strip(lines[i + 1])
        level == HeadingLevel(line)
        id(type) == type \o "_" \o ToString(section_counter + 1)
    IN
    IF StartsWith(line, "#") /\ ~IsFence(line) /\ level <= 6 THEN
        LET title == Strip(LStrip(line, {"#"}))
        IN  ParseLoop(lines, i + 1,
                EditableSection(id("section"), title, line, "heading", level,
                                i, i, _is_section_editable(title)),
                section_counter + 1, SavePrevious(secs, current_section))
    ELSE IF IsFence(line) THEN
        LET close == CodeBlockEnd(lines, i + 1)
            next  == IF close < Len(lines) THEN close + 1 ELSE close
        IN  ParseLoop(lines, next, None, section_counter + 1,
                Append(SavePrevious(secs, current_section),
                       CodeSection(id("code"), line, lines, i, next)))
    ELSE IF IsTableRow(line) THEN
        LET next == TableEnd(lines, i + 1)
        IN  ParseLoop(lines, next, None, section_counter + 1,
                Append(SavePrevious(secs, current_section),
                       TableSection(id("table"), line, lines, i, next)))
    ELSE IF IsListItem(line) THEN
        IF current_section # None /\ current_section.section_type # "list" THEN
            ParseLoop(lines, i + 1,
                EditableSection(id("list"), "List", line, "list", 0, i, i, TRUE),
                section_counter + 1, SavePrevious(secs, current_section))
        ELSE IF current_section # None /\ current_section.section_type = "list" THEN
            ParseLoop(lines, i + 1,
                [current_section EXCEPT !.content = @ \o "\n" \o line,
                                        !.end_line = i],
                section_counter, secs)
        ELSE
            ParseLoop(lines, i + 1,
                EditableSection(id("list"), "List", line, "list", 0, i, i, TRUE),
                section_counter + 1, secs)
    ELSE IF line # "" THEN
        IF current_section # None /\ current_section.section_type = "paragraph" THEN
            ParseLoop(lines, i + 1,
                [current_section EXCEPT !.content = @ \o "\n" \o line,
                                        !.end_line = i],
                section_counter, secs)
        ELSE IF current_section # None /\ current_section.section_type = "heading" THEN
            ParseLoop(lines, i + 1,
                EditableSection(id("paragraph"), "Paragraph", line, "paragraph",
                                0, i, i, TRUE),
                section_counter + 1, Append(secs, current_section))
        ELSE
            ParseLoop(lines, i + 1,
                EditableSection(id("paragraph"), "Paragraph", line, "paragraph",
                                0, i, i, TRUE),
                section_counter + 1, SavePrevious(secs, current_section))
    ELSE ParseLoop(lines, i + 1, current_section, section_counter, secs)

\* the value parse_plan_content(content) leaves in self.sections
ParseSections(content) == ParseLoop(Split(content, "\n"), 0, None, 0, <<>>)

RECURSIVE SortedByStart(_)
\* sorted(sections, key=lambda x: x.start_line): stable
SortedByStart(secs) ==
    IF Len(secs) <= 1 THEN secs
    ELSE LET rest == SortedByStart(Tail(secs))
             x == Head(secs)
             before == Cardinality({j \in 1..Len(rest) :
                                      rest[j].start_line < x.start_line})
         IN  SubSeq(rest, 1, before) \o <<x>> \o SubSeq(rest, before + 1, Len(rest))

RECURSIVE RebuildLines(_, _, _, _, _)
\* the two loops of _rebuild_content: new_lines after the sections from
\* index k on and the remaining lines
RebuildLines(lines, sorted_sections, k, current_line, new_lines) ==
    IF k > Len(sorted_sections)
    THEN new_lines \o SubSeq(lines, current_line + 1, Len(lines))
    ELSE LET section == sorted_sections[k]
         IN  RebuildLines(lines, sorted_sections, k + 1, section.end_line + 1,
                 new_lines
                 \o SubSeq(lines, current_line + 1, section.start_line)
                 \o Split(section.content, "\n"))

\* str.split raises AttributeError in _rebuild_content: on original_content
\* or on the content of a section
RebuildRaises(orig, secs) ==
    orig = NoText \/ \E k \in 1..Len(secs) : secs[k].content = NoText

\* _rebuild_content whose except clause leaves self.modified_content as it
\* is
_rebuild_content_without_fallback(orig, secs) ==
    IF RebuildRaises(orig, secs) THEN modified_content
    ELSE Join(RebuildLines(Split(orig, "\n"), SortedByStart(secs), 1, 0, <<>>), "\n")

\* the value _rebuild_content leaves in self.modified_content;
\* except Exception: self.modified_content = self.original_content
_rebuild_content(orig, secs) ==
    IF RebuildRaises(orig, secs) THEN orig
    ELSE Join(RebuildLines(Split(orig, "\n"), SortedByStart(secs), 1, 0, <<>>), "\n")

\* return self.modified_content if self.modified_content else self.original_content
get_modified_content ==
    IF modified_content \notin {"", NoText} THEN modified_content ELSE original_content

get_edit_history == edit_history

\* _get_section_preview(content), max_length = 100
_get_section_preview(content) ==
    LET preview ==
            Strip(Sub(<<Plus({"\n"})>>, Template(<<Txt(" ")>>),
                      Sub(<<One({"#", "*", BACKTICK, "|"})>>, Template(<<>>),
                          content, FALSE),
                      FALSE))
    IN  IF Len(preview) > 100 THEN SubSeq(preview, 1, 100) \o "..." ELSE preview

\* re.sub raises TypeError in _get_section_preview: the content of an
\* editable section is None
PreviewRaises ==
    \E k \in 1..Len(sections) : sections[k].is_editable /\ sections[k].content = NoText

\* the list get_editable_sections returns
get_editable_sections ==
    LET editable == SelectSeq(sections, LAMBDA section : section.is_editable)
    IN  [k \in 1..Len(editable) |->
            [id |-> editable[k].section_id,
             title |-> editable[k].title,
             content |-> editable[k].content,
             type |-> editable[k].section_type,
             level |-> editable[k].level,
             preview |-> _get_section_preview(editable[k].content)]]

\* the index in self.sections of the first section with this id, 0 if none
FindSection(secs, section_id) ==
    IF \E k \in 1..Len(secs) : secs[k].section_id = section_id
    THEN CHOOSE k \in 1..Len(secs) :
            /\ secs[k].section_id = section_id
            /\ \A j \in 1..(k - 1) : secs[j].section_id # section_id
    ELSE 0

-----------------------------------------------------------------------------
(* The editor's inputs *)

MaxLines == 3      \* lines of a plan, where only the parser is looked at
MaxEditLines == 2  \* lines of a plan that is edited
MaxEdits == 2      \* successful update_section calls in one run

\* the lines plans are made of: headings (one with a metadata title, one
\* with too many #), plain and indented text, a blank line, list items,
\* a fence, a table row
DocLines ==
    {"# T", "## meta-info", "# AI model", "####### h", "p", " q", "",
     "- i", "1. j", Fence, "|a|"}
\* the lines of the plans that are edited
EditLines == {"# T", "## meta-info", "p", " q", ""}

RECURSIVE DocsOf(_, _)
\* the documents of exactly n lines
DocsOf(lines, n) ==
    IF n = 1 THEN lines
    ELSE {d \o "\n" \o l : d \in DocsOf(lines, n - 1), l \in lines}

Docs == UNION {DocsOf(DocLines, n) : n \in 1..MaxLines}
EditDocs == UNION {DocsOf(EditLines, n) : n \in 1..MaxEditLines}

NewContents == {"", "y\nz"}
Comments == {"c"}

-----------------------------------------------------------------------------
(* The editor's operations *)

Called(op, section_id, content, ret) ==
    [op |-> op, section_id |-> section_id, content |-> content, ret |-> ret]

\* PlanEditor.__init__, and the plan the UI holds
EditorInit(plans) ==
    /\ sections = <<>>
    /\ original_content = ""
    /\ modified_content = ""
    /\ edit_history = <<>>
    /\ now = 0
    /\ last = Called("__init__", "", "", "None")
    /\ plan_content \in plans

\* parse_plan_content that starts a new edit history
parse_plan_content_clears_history(content) ==
    /\ original_content' = content
    /\ sections' = IF content = NoText THEN <<>> ELSE ParseSections(content)
    /\ edit_history' = <<>>
    /\ last' = Called("parse_plan_content", "", content,
                      IF content = NoText THEN "AttributeError" ELSE "sections")
    /\ UNCHANGED <<modified_content, now, plan_content>>

\* parse_plan_content(content); on None content.split raises AttributeError
\* after the first two assignments
parse_plan_content(content) ==
    /\ original_content' = content
    /\ sections' = IF content = NoText THEN <<>> ELSE ParseSections(content)
    /\ last' = Called("parse_plan_content", "", content,
                      IF content = NoText THEN "AttributeError" ELSE "sections")
    /\ UNCHANGED <<modified_content, edit_history, now, plan_content>>

\* update_section without the is_editable test
update_section_any_section(section_id, new_content, user_comment) ==
    LET k == FindSection(sections, section_id)
    IN  IF k = 0
        THEN /\ last' = Called("update_section", section_id, new_content, "False")
             /\ UNCHANGED <<sections, original_content, modified_content,
                            edit_history, now, plan_content>>
        ELSE /\ now < MaxEdits
             /\ now' = now + 1
             /\ edit_history' = Append(edit_history,
                    [timestamp |-> now',
                     section_id |-> section_id,
                     old_content |-> sections[k].content,
                     new_content |-> new_content,
                     user_comment |-> user_comment])
             /\ sections' = [sections EXCEPT ![k].content = new_content]
             /\ modified_content' = _rebuild_content(original_content, sections')
             /\ last' = Called("update_section", section_id, new_content, "True")
             /\ UNCHANGED <<original_content, plan_content>>

\* update_section(section_id, new_content, user_comment), for a run of at
\* most limit successful edits
update_section_until(limit, section_id, new_content, user_comment) ==
    LET k == FindSection(sections, section_id)
    IN  IF k = 0 \/ ~sections[k].is_editable
        THEN /\ last' = Called("update_section", section_id, new_content, "False")
             /\ UNCHANGED <<sections, original_content, modified_content,
                            edit_history, now, plan_content>>
        ELSE /\ now < limit
             /\ now' = now + 1
             /\ edit_history' = Append(edit_history,
                    [timestamp |-> now',
                     section_id |-> section_id,
                     old_content |-> sections[k].content,
                     new_content |-> new_content,
                     user_comment |-> user_comment])
             /\ sections' = [sections EXCEPT ![k].content = new_content]
             /\ modified_content' = _rebuild_content(original_content, sections')
             /\ last' = Called("update_section", section_id, new_content, "True")
             /\ UNCHANGED <<original_content, plan_content>>

\* update_section(section_id, new_content, user_comment)
update_section(section_id, new_content, user_comment) ==
    update_section_until(MaxEdits, section_id, new_content, user_comment)

\* reset_to_original that re-parses and leaves modified_content as it is
reset_to_original_keeps_modified ==
    /\ edit_history' = <<>>
    /\ sections' = ParseSections(original_content)
    /\ last' = Called("reset_to_original", "", "", "None")
    /\ UNCHANGED <<modified_content, original_content, now, plan_content>>

\* reset_to_original(); the exception of parse_plan_content(None) goes
\* through it
reset_to_original ==
    /\ modified_content' = original_content
    /\ edit_history' = <<>>
    /\ sections' = IF original_content = NoText THEN <<>>
                   ELSE ParseSections(original_content)
    /\ last' = Called("reset_to_original", "", "",
                      IF original_content = NoText THEN "AttributeError" ELSE "None")
    /\ UNCHANGED <<original_content, now, plan_content>>

\* enable_plan_editing(plan_content)
Parse == parse_plan_content(plan_content) /\ UNCHANGED <<pipeVars, sessionVars, fetchVars>>

\* the ids a caller passes: those of the sections it was shown, and one
\* the parser never gives
Update ==
    \E section_id \in {sections[k].section_id : k \in 1..Len(sections)} \cup {"section_0"},
       new_content \in NewContents, user_comment \in Comments :
        update_section(section_id, new_content, user_comment) /\ UNCHANGED <<pipeVars, sessionVars, fetchVars>>

Reset == reset_to_original /\ UNCHANGED <<pipeVars, sessionVars, fetchVars>>

EditorNext == Parse \/ Update \/ Reset

\* parse_plan_content(None)
ParseNull == parse_plan_content(NoText) /\ UNCHANGED <<pipeVars, sessionVars, fetchVars>>

\* update_section(section_id, None, user_comment)
UpdateNull ==
    \E section_id \in {sections[k].section_id : k \in 1..Len(sections)} \cup {"section_0"},
       user_comment \in Comments :
        update_section(section_id, NoText, user_comment) /\ UNCHANGED <<pipeVars, sessionVars, fetchVars>>

\* a long run of edits: the UI shows ten entries of the history
MaxHistory == 11
ShownHistory == 10

\* update_section_content(section_id, new_content, comment), again and again
EditOn ==
    \E section_id \in {sections[k].section_id : k \in 1..Len(sections)} \cup {"section_0"} :
        update_section_until(MaxHistory, section_id, "y", "c")
            /\ UNCHANGED <<pipeVars, sessionVars, fetchVars>>

\* a section is opened in the UI and saved as it is
Resave ==
    \E k \in 1..Len(sections) :
        update_section(sections[k].section_id, sections[k].content, "")
            /\ UNCHANGED <<pipeVars, sessionVars, fetchVars>>

\* get_editable_sections()
GetEditable ==
    /\ last' = Called("get_editable_sections", "", "",
                      IF PreviewRaises THEN "TypeError"
                      ELSE IF get_editable_sections = <<>> THEN "[]"
                      ELSE "editable_sections")
    /\ UNCHANGED <<sections, original_content, modified_content, edit_history,
                   now, plan_content>>
    /\ UNCHANGED <<pipeVars, sessionVars, fetchVars>>

\* get_modified_content()
GetModified ==
    /\ last' = Called("get_modified_content", "", "", get_modified_content)
    /\ UNCHANGED <<sections, original_content, modified_content, edit_history,
                   now, plan_content>>
    /\ UNCHANGED <<pipeVars, sessionVars, fetchVars>>

\* get_edit_history()
GetHistory ==
    /\ last' = Called("get_edit_history", "", "",
                      IF get_edit_history = <<>> THEN "[]" ELSE "edit_history")
    /\ UNCHANGED <<sections, original_content, modified_content, edit_history,
                   now, plan_content>>
    /\ UNCHANGED <<pipeVars, sessionVars, fetchVars>>

\* every operation a caller has, on texts and on None
PublicNext ==
    \/ Parse \/ ParseNull \/ Update \/ UpdateNull \/ Reset
    \/ GetEditable \/ GetModified \/ GetHistory

-----------------------------------------------------------------------------
(* The pipeline's inputs *)

MaxFrags == 2   \* pieces of a generated document
MaxRuns == 2    \* calls made on the pipeline in one run
ThisYear == 2026

\* the pieces documents are made of: a diagram edge, an old date, a link to
\* a host that is not trusted, a heading left empty by the generator, text
PipeFrags == {"A-->B", "2021-01-01", "[b](http://evil.io/x)", "#### " \o ROCKET \o " **", " x"}

\* the pieces of the documents the link stage is run on: links to a trusted
\* host, to other hosts with a trusted name in the path or in the host, to
\* a host that is not trusted, with no URL; bare URLs, one of them to
\* localhost with the name of a placeholder host behind it
LinkFrags ==
    {"[a](https://github.com/x)", "[a](http://evil.io/github.com)",
     "[a](http://notgithub.com/x)", "[b](http://evil.io/x)", "[c](x)",
     "http://a ", "https://localhost/p example.com", "https://example.com/x", " "}

\* the pieces of the documents the date stage is run on: dates inside and
\* outside the window 2020-2023, the head of a date, a year with the word
\* "year" behind it, text
DateFrags == {"2022-06-15", "2019-06-15", "2030-12-31", "2021-02-", "2023year", " on "}

\* the pieces of the documents with fake links: markdown links to a
\* placeholder user, to example.com, to an article with a numeric id and
\* with the scheme https0; bare URLs to example.com, to localhost and with
\* the scheme https0; text.  Every piece ends with a blank.
FakeFrags ==
    {"[a](https://github.com/username/r) ", "[b](https://example.com/x) ",
     "[c](https://blog.csdn.net/username/article/details/1) ", "[d](https0://h) ",
     "https://example.com/x ", "http://localhost/p ", "https0://h ", "ok "}

\* the pieces of the documents the formatting stage is run on: one and two
\* line breaks, text, a heading left empty, a rule
FormatFrags == {"\n", "\n\n", "a", "##", "---", "#### " \o ROCKET \o " **"}

\* the pieces of the documents the diagram stage is run on: an edge with no
\* blank around the arrow and one with a blank on each side, node labels
\* with doubled quotes, with quotes, without quotes, in ASCII and not, a
\* line break
MermaidFrags ==
    {"A-->B", "A --> B", "A[\"\"t\"\"]", "A[\"t\"]", "A[" \o CJK \o "]",
     "A[\"" \o CJK \o "\"]", "\n"}

RECURSIVE Repeat(_, _)
\* s * n
Repeat(s, n) ==
    IF n = 0 THEN ""
    ELSE IF n % 2 = 1 THEN s \o Repeat(s, n - 1)
    ELSE Repeat(s \o s, n \div 2)

\* the pieces of the documents the scorer is run on: two of the structural
\* markers, a recent and a stale date, a placeholder host, a heading left
\* inside a diagram, and text that takes a document past 500 characters
\* and, twice, past 2000
ScoreFrags ==
    {structure_checks[1] \o "\n", Fence \o "mermaid\n", "2026-01-01 ", "2021-01-01 ",
     "Example.com ", "## " \o TARGET \o " A\n", Repeat("lorem ipsum ", 84)}

RECURSIVE Concats(_, _)
\* the documents of exactly n pieces
Concats(frags, n) ==
    IF n = 0 THEN {""}
    ELSE {d \o f : d \in Concats(frags, n - 1), f \in frags}

\* the values the pipeline is called with: None, and documents of up to
\* MaxFrags pieces, the empty one among them
Contents(frags) ==
    {NoContent} \cup {Str(d) : d \in UNION {Concats(frags, n) : n \in 0..MaxFrags}}

-----------------------------------------------------------------------------
(* The pipeline's operations *)

PipeCalled(op, content, ran) == [op |-> op, content |-> content, ran |-> ran]

PipeInit(contents) ==
    /\ document \in contents
    /\ pipeline_module \in {"utils", "app"}
    /\ clock_year = ThisYear
    /\ pipe_last = PipeCalled("", NoContent, Ran(NoContent, <<>>, <<>>, 0, 0, FALSE))
    /\ runs = 0

\* document = validate_and_fix_content(document)
Run ==
    /\ runs < MaxRuns
    /\ runs' = runs + 1
    /\ pipe_last' = PipeCalled("validate_and_fix_content", document,
                               validate_and_fix_content(pipeline_module, clock_year, document))
    /\ document' = IF pipe_last'.ran.raised THEN document ELSE pipe_last'.ran.ret
    /\ UNCHANGED <<pipeline_module, clock_year>>
    /\ UNCHANGED <<editorVars, sessionVars, fetchVars>>

\* document = validate_and_clean_links(document), on a string
Sanitize ==
    /\ runs < MaxRuns
    /\ ~document.is_none
    /\ runs' = runs + 1
    /\ document' = Str(validate_and_clean_links(pipeline_module, document.text))
    /\ pipe_last' = PipeCalled("validate_and_clean_links", document,
                               Ran(document', <<"validate_and_clean_links">>,
                                   <<>>, 0, 0, FALSE))
    /\ UNCHANGED <<pipeline_module, clock_year>>
    /\ UNCHANGED <<editorVars, sessionVars, fetchVars>>


\* document = fix_date_consistency(document), on a string
Normalize ==
    /\ runs < MaxRuns
    /\ ~document.is_none
    /\ runs' = runs + 1
    /\ document' = Str(fix_date_consistency(clock_year, document.text))
    /\ pipe_last' = PipeCalled("fix_date_consistency", document,
                               Ran(document', <<"fix_date_consistency">>,
                                   <<>>, 0, 0, FALSE))
    /\ UNCHANGED <<pipeline_module, clock_year>>
    /\ UNCHANGED <<editorVars, sessionVars, fetchVars>>

\* calculate_quality_score(document); `if not content: return 0` answers
\* None as it answers the empty string
Score ==
    /\ pipe_last' = PipeCalled("calculate_quality_score", document,
                               Ran(IF document.is_none THEN 0
                                   ELSE calculate_quality_score(document.text),
                                   <<"calculate_quality_score">>, <<>>, 0, 0, FALSE))
    /\ UNCHANGED <<document, pipeline_module, clock_year, runs>>
    /\ UNCHANGED <<editorVars, sessionVars, fetchVars>>

\* document = fix_mermaid_syntax(document), on a string
Repair ==
    /\ runs < MaxRuns
    /\ ~document.is_none
    /\ runs' = runs + 1
    /\ document' = Str(fix_mermaid_syntax(document.text))
    /\ pipe_last' = PipeCalled("fix_mermaid_syntax", document,
                               Ran(document', <<"fix_mermaid_syntax">>,
                                   <<>>, 0, 0, FALSE))
    /\ UNCHANGED <<pipeline_module, clock_year>>
    /\ UNCHANGED <<editorVars, sessionVars, fetchVars>>

\* document = fix_formatting_issues(document), on a string
Reformat ==
    /\ runs < MaxRuns
    /\ ~document.is_none
    /\ runs' = runs + 1
    /\ document' = Str(fix_formatting_issues(document.text))
    /\ pipe_last' = PipeCalled("fix_formatting_issues", document,
                               Ran(document', <<"fix_formatting_issues">>,
                                   <<>>, 0, 0, FALSE))
    /\ UNCHANGED <<pipeline_module, clock_year>>
    /\ UNCHANGED <<editorVars, sessionVars, fetchVars>>

\* the four stages a caller can call by themselves
DirectStages ==
    {"fix_mermaid_syntax", "validate_and_clean_links", "fix_date_consistency",
     "fix_formatting_issues"}

\* stage(None): the first re.sub(pattern, replacement, None) of each stage
\* raises TypeError, nothing is assigned
StageOnNone ==
    \E stage \in DirectStages :
        /\ runs < MaxRuns
        /\ document.is_none
        /\ runs' = runs + 1
        /\ pipe_last' = PipeCalled(stage, document,
                                   Ran(NoContent, <<stage>>, <<>>, 0, 0, TRUE))
        /\ UNCHANGED <<document, pipeline_module, clock_year>>
        /\ UNCHANGED <<editorVars, sessionVars, fetchVars>>


-----------------------------------------------------------------------------
(* fetch_knowledge_from_url_via_mcp: the two MCP services *)

\* AsyncMCPResult(success, data, ..., error_message), or the exception the
\* call of a service raised, with its str(e)
Result(success, data, error_message) ==
    [raised |-> FALSE, success |-> success, data |-> data,
     error_message |-> error_message]

Raised(e) == [raised |-> TRUE, success |-> FALSE, data |-> NoText, error_message |-> e]

\* len(result.data.strip()) > 10
MinKnowledge == 10

\* result.success and result.data and len(result.data.strip()) > 10
Usable(result) ==
    /\ ~result.raised
    /\ result.success
    /\ result.data \notin {NoText, ""}
    /\ Len(Strip(result.data)) > MinKnowledge

\* the message returned when the Fetch service gave nothing usable
FetchFailed(result) ==
    IF result.raised THEN "MCP service call exception: " \o result.error_message
    ELSE "MCP service call failed: "
             \o (IF result.error_message \in {NoText, ""} THEN "Unknown error"
                 ELSE result.error_message)

\* the URLs knowledge is fetched from
Urls ==
    {"https://deepwiki.org/a/b", "https://DeepWiki.org/a/b",
     "https://example.org/deepwiki", "https://github.com/a/b"}

\* what a service answers: texts of ten and of eleven characters, with
\* blanks around and inside; nothing; a failure with and without a message
\* and with data; an exception
Datas ==
    {NoText, "", "abcdefghij", "  abcdefghij \n", "abcdefghijk", "a         b"}

Results ==
    {Result(TRUE, data, NoText) : data \in Datas}
        \cup {Result(FALSE, data, e) : data \in {NoText, "abcdefghijk"}, e \in {NoText, "503"}}
        \cup {Raised("timeout")}

Fetching(url, at, calls, ret) == [url |-> url, at |-> at, calls |-> calls, ret |-> ret]

Called_service(service, result) == [service |-> service, result |-> result]

NotReturned == [ok |-> FALSE, text |-> NoText]

NoFetch == fetching = Fetching("", "idle", <<>>, NotReturned)

\* fetch_knowledge_from_url_via_mcp(url): the service is chosen
FetchKnowledge ==
    \E url \in Urls :
        /\ fetching.at = "idle"
        /\ fetching' = Fetching(url,
                                IF Contains(Lower(url), "deepwiki.org")
                                THEN "call_deepwiki_mcp_async"
                                ELSE "call_fetch_mcp_async",
                                <<>>, NotReturned)
        /\ UNCHANGED <<editorVars, pipeVars, sessionVars>>

\* call_deepwiki_mcp_async(url) answers or raises: the data is returned, or
\* the function goes on to the Fetch service
DeepWikiAnswers ==
    \E result \in Results :
        /\ fetching.at = "call_deepwiki_mcp_async"
        /\ fetching' =
              Fetching(fetching.url,
                       IF Usable(result) THEN "returned" ELSE "call_fetch_mcp_async",
                       Append(fetching.calls, Called_service("deepwiki", result)),
                       IF Usable(result) THEN [ok |-> TRUE, text |-> result.data]
                       ELSE NotReturned)
        /\ UNCHANGED <<editorVars, pipeVars, sessionVars>>

\* call_fetch_mcp_async(url, max_length=8000) answers or raises
FetchAnswers ==
    \E result \in Results :
        /\ fetching.at = "call_fetch_mcp_async"
        /\ fetching' =
              Fetching(fetching.url, "returned",
                       Append(fetching.calls, Called_service("fetch", result)),
                       IF Usable(result) THEN [ok |-> TRUE, text |-> result.data]
                       ELSE [ok |-> FALSE, text |-> FetchFailed(result)])
        /\ UNCHANGED <<editorVars, pipeVars, sessionVars>>

vars == <<editorVars, pipeVars, sessionVars, fetchVars>>

\* no pipeline runs beside the editor
IdlePipeline == PipeInit({NoContent}) /\ pipeline_module = "utils"

\* the two users of the web UI, and what the UI answers when update_section
\* returns False
Users == {"A", "B"}
UpdateFailed == "Update failed"

Session(plan, shown, got) == [plan |-> plan, shown |-> shown, got |-> got]

\* no user is told apart: the one caller of a specification's operations
NoSessions ==
    /\ users = [u \in Users |-> Session("", <<>>, "")]
    /\ caller = ""
    /\ parsed_by = ""

\* a plan is parsed, edited and reset
Init == EditorInit(EditDocs) /\ IdlePipeline /\ NoSessions /\ NoFetch
Spec == Init /\ [][EditorNext]_vars

\* a plan is parsed
InitParse == EditorInit(Docs) /\ IdlePipeline /\ NoSessions /\ NoFetch
SpecParse == InitParse /\ [][Parse]_vars

\* a generated document goes through the pipeline, and again
InitPipeline == EditorInit({""}) /\ PipeInit(Contents(PipeFrags)) /\ NoSessions /\ NoFetch
SpecPipeline == InitPipeline /\ [][Run]_vars

\* a generated document goes through the link stage, and again
InitLinks == EditorInit({""}) /\ PipeInit(Contents(LinkFrags)) /\ NoSessions /\ NoFetch
SpecLinks == InitLinks /\ [][Sanitize]_vars

\* a generated document goes through the date stage, and again
InitDates == EditorInit({""}) /\ PipeInit(Contents(DateFrags)) /\ NoSessions /\ NoFetch
SpecDates == InitDates /\ [][Normalize]_vars

\* a generated document with fake links goes through the link stage
InitFakeLinks == EditorInit({""}) /\ PipeInit(Contents(FakeFrags)) /\ NoSessions /\ NoFetch
SpecFakeLinks == InitFakeLinks /\ [][Sanitize]_vars

\* a generated document goes through the formatting stage, and again
InitFormatting == EditorInit({""}) /\ PipeInit(Contents(FormatFrags)) /\ NoSessions /\ NoFetch
SpecFormatting == InitFormatting /\ [][Reformat]_vars

\* a generated document goes through the diagram stage, and again
InitDiagrams == EditorInit({""}) /\ PipeInit(Contents(MermaidFrags)) /\ NoSessions /\ NoFetch
SpecDiagrams == InitDiagrams /\ [][Repair]_vars

\* the stages are called by themselves, in any order, on a generated
\* document, on the empty one and on None
InitStages == EditorInit({""}) /\ PipeInit(Contents(PipeFrags)) /\ NoSessions /\ NoFetch
SpecStages ==
    InitStages /\ [][Repair \/ Sanitize \/ Normalize \/ Reformat \/ StageOnNone]_vars

\* a generated document is scored, by the scorer of utils.py (the one of
\* app.py is the same text)
InitScore ==
    /\ NoSessions /\ NoFetch
    /\ EditorInit({""})
    /\ PipeInit(Contents(ScoreFrags))
    /\ pipeline_module = "utils"
SpecScore == InitScore /\ [][Score]_vars

\* every operation a caller has is called, on a plan and on a generated
\* document, on the empty string and on None
PublicPlans == {"", "# T\np"}
PublicContents == {NoContent, Str("")}

InitPublic ==
    /\ NoSessions /\ NoFetch
    /\ EditorInit(PublicPlans)
    /\ PipeInit(PublicContents)
    /\ pipeline_module = "utils"

SpecPublic == InitPublic /\ [][PublicNext \/ Run \/ Score]_vars

\* a plan is parsed, edited, with texts and with None, read and reset
NullPlans == {"# T\np", "p\n\n- i", "## meta-info\np"}
InitNull == EditorInit(NullPlans) /\ IdlePipeline /\ NoSessions /\ NoFetch
SpecNull == InitNull /\ [][Parse \/ Update \/ UpdateNull \/ Reset \/ GetModified]_vars

\* one plan is edited more often than the UI shows entries, parsed again
\* and reset
InitHistory == EditorInit({"p"}) /\ IdlePipeline /\ NoSessions /\ NoFetch
SpecHistory == InitHistory /\ [][Parse \/ EditOn \/ Reset \/ GetHistory]_vars

\* a plan is parsed and edited; sections are also saved unchanged
InitResave == EditorInit(EditDocs) /\ IdlePipeline /\ NoSessions /\ NoFetch
SpecResave == InitResave /\ [][Parse \/ Update \/ Resave \/ Reset]_vars

\* knowledge is fetched from a URL through the MCP services
InitFetch == EditorInit({""}) /\ IdlePipeline /\ NoSessions /\ NoFetch
SpecFetch == InitFetch /\ [][FetchKnowledge \/ DeepWikiAnswers \/ FetchAnswers]_vars

-----------------------------------------------------------------------------
(* Two users of the one editor: plan_editor = PlanEditor() *)

\* the plans the two users generated
PlansOfA == {"# T\np", "# T"}
PlansOfB == {"# U\n- i", "q"}

\* the ids of the sections get_editable_sections lists, of these sections
EditableIds(secs) ==
    LET editable == SelectSeq(secs, LAMBDA section : section.is_editable)
    IN  [k \in 1..Len(editable) |-> editable[k].section_id]

\* enable_plan_editing(plan_content) of user u: the shared editor parses the
\* user's plan and the user is shown its editable sections
UserParse(u) ==
    /\ parse_plan_content(users[u].plan)
    /\ users' = [users EXCEPT ![u].shown = EditableIds(sections')]
    /\ caller' = u
    /\ parsed_by' = u
    /\ UNCHANGED <<pipeVars, fetchVars>>

\* update_section_content of a user whose request is served by an editor
\* that has parsed the user's own plan
UserUpdate_on_own_plan(u) ==
    \E k \in 1..Len(ParseSections(users[u].plan)), new_content \in NewContents :
        /\ ParseSections(users[u].plan)[k].section_id
               \in {users[u].shown[j] : j \in 1..Len(users[u].shown)}
        /\ now < MaxEdits
        /\ now' = now + 1
        /\ original_content' = users[u].plan
        /\ sections' = [ParseSections(users[u].plan) EXCEPT ![k].content = new_content]
        /\ modified_content' = _rebuild_content(original_content', sections')
        /\ edit_history' = Append(edit_history,
               [timestamp |-> now',
                section_id |-> sections'[k].section_id,
                old_content |-> ParseSections(users[u].plan)[k].content,
                new_content |-> new_content,
                user_comment |-> ""])
        /\ last' = Called("update_section", sections'[k].section_id, new_content, "True")
        /\ users' = [users EXCEPT ![u].got = get_modified_content']
        /\ caller' = u
        /\ parsed_by' = u
        /\ UNCHANGED plan_content
        /\ UNCHANGED <<pipeVars, fetchVars>>

\* update_section_content(section_id, new_content, comment) of user u, with
\* the id of a section the user was shown: the user gets the editor's
\* modified content, or the failure message
UserUpdate(u) ==
    \E j \in 1..Len(users[u].shown), new_content \in NewContents,
       user_comment \in Comments :
        /\ update_section(users[u].shown[j], new_content, user_comment)
        /\ users' = [users EXCEPT ![u].got = IF last'.ret = "True"
                                              THEN get_modified_content'
                                              ELSE UpdateFailed]
        /\ caller' = u
        /\ UNCHANGED parsed_by
        /\ UNCHANGED <<pipeVars, fetchVars>>

\* the requests of the two users are served in any order
SharedNext == \E u \in Users : UserParse(u) \/ UserUpdate(u)

InitShared ==
    /\ EditorInit({""})
    /\ IdlePipeline
    /\ \E a \in PlansOfA, b \in PlansOfB :
          users = [u \in Users |-> Session(IF u = "A" THEN a ELSE b, <<>>, "")]
    /\ caller = ""
    /\ parsed_by = ""
    /\ NoFetch

SpecShared == InitShared /\ [][SharedNext]_vars

-----------------------------------------------------------------------------
(* Claims about the editor *)

\* update_section refuses this id in the current state
Refused(section_id) ==
    LET k == FindSection(sections, section_id)
    IN  k = 0 \/ ~sections[k].is_editable

\* C4: update_section with an id that is unknown or names a non-editable
\* section returns false and changes no section, no history entry and not
\* the value of get_modified_content().
C4_RefusedUpdateChangesNothing ==
    [][(last'.op = "update_section" /\ Refused(last'.section_id))
        => /\ last'.ret = "False"
           /\ sections' = sections
           /\ edit_history' = edit_history
           /\ get_modified_content' = get_modified_content]_vars

\* a metadata heading was refused after an edit had been recorded
C4_Witness ==
    /\ last.op = "update_section" /\ last.ret = "False"
    /\ \E k \in 1..Len(sections) :
         sections[k].section_id = last.section_id /\ ~sections[k].is_editable
    /\ edit_history # <<>>

\* the original document with the lines start_line..end_line of the section
\* replaced by new_content
RangeReplaced(orig, section, new_content) ==
    LET lines == Split(orig, "\n")
    IN  Join(SubSeq(lines, 1, section.start_line)
             \o Split(new_content, "\n")
             \o SubSeq(lines, section.end_line + 2, Len(lines)), "\n")

\* C5: update_section on an editable id returns true, appends exactly one
\* history entry holding the old and the new content, and afterwards
\* get_modified_content() is the original document with the section's line
\* range replaced by new_content.  Stated for the first edit after a parse,
\* when no other section has been edited.
C5_UpdateReplacesRange ==
    [][(/\ last'.op = "update_section"
        /\ ~Refused(last'.section_id)
        /\ sections = ParseSections(original_content))
        => LET k == FindSection(sections, last'.section_id)
           IN  /\ last'.ret = "True"
               /\ Len(edit_history') = Len(edit_history) + 1
               /\ SubSeq(edit_history', 1, Len(edit_history)) = edit_history
               /\ edit_history'[Len(edit_history')].old_content = sections[k].content
               /\ edit_history'[Len(edit_history')].new_content = last'.content
               /\ get_modified_content' =
                    RangeReplaced(original_content, sections[k], last'.content)]_vars

\* C6: after any number of update_section calls, reset_to_original() leaves
\* get_modified_content() equal to the string that was parsed, the history
\* empty and every section as freshly parsed.
C6_ResetRestoresOriginal ==
    last.op = "reset_to_original" =>
        /\ original_content \in {"", plan_content}
        /\ get_modified_content = original_content
        /\ edit_history = <<>>
        /\ sections = ParseSections(original_content)

\* a reset after two edits of a parsed plan
C6_Witness ==
    /\ last.op = "reset_to_original"
    /\ now = 2
    /\ original_content = plan_content
    /\ Len(sections) = 2

\* C7: the sections of one parse are in increasing line order and do not
\* overlap: start_line <= end_line, and each section ends before the next
\* one starts.
C7_SectionsOrdered ==
    /\ \A k \in 1..Len(sections) : sections[k].start_line <= sections[k].end_line
    /\ \A k \in 1..(Len(sections) - 1) :
         sections[k].end_line < sections[k + 1].start_line

\* a code block of two lines followed by another section
C7_Witness ==
    /\ last.op = "parse_plan_content"
    /\ Len(sections) = 2
    /\ sections[1].section_type = "code"
    /\ sections[1].end_line = 1
    /\ sections[2].start_line = 2

\* the phrases of the metadata headings
MetadataPhrases ==
    {"Generation time", "AI model", "Based on user creativity",
     "Agent application", "meta-info"}

\* C8: a heading whose title contains a metadata phrase is not editable, and
\* every section that is not a heading is editable.
C8_MetadataHeadingsProtected ==
    \A k \in 1..Len(sections) :
        IF sections[k].section_type = "heading"
        THEN (\E ph \in MetadataPhrases : Contains(sections[k].title, ph))
                => ~sections[k].is_editable
        ELSE sections[k].is_editable

\* a line of 1 to 6 # characters and then a title
IsHeadingLine(l) ==
    /\ LeadRun(l, 1, {"#"}) \in 1..6
    /\ Strip(LStrip(l, {"#"})) # ""
\* a line of plain text: not blank, no heading, fence, table row or list item
IsPlainLine(l) ==
    /\ Strip(l) # ""
    /\ ~StartsWith(Strip(l), "#")
    /\ ~IsFence(Strip(l)) /\ ~IsTableRow(l) /\ ~IsListItem(Strip(l))

\* C9: a heading line followed at once by one plain text line parses into
\* exactly two sections: a heading on line 0 whose level is the number of #,
\* then a paragraph on line 1 of level 0.
C9_HeadingThenParagraph ==
    LET lines == Split(plan_content, "\n")
    IN  (/\ last.op = "parse_plan_content"
         /\ Len(lines) = 2
         /\ IsHeadingLine(lines[1])
         /\ IsPlainLine(lines[2]))
        => /\ Len(sections) = 2
           /\ sections[1].section_type = "heading"
           /\ sections[1].start_line = 0 /\ sections[1].end_line = 0
           /\ sections[1].level = LeadRun(lines[1], 1, {"#"})
           /\ sections[2].section_type = "paragraph"
           /\ sections[2].start_line = 1 /\ sections[2].end_line = 1
           /\ sections[2].level = 0

\* a level-2 heading and an indented line of text were parsed
C9_Witness ==
    /\ last.op = "parse_plan_content"
    /\ plan_content = "## meta-info\n q"
    /\ Len(sections) = 2

-----------------------------------------------------------------------------
(* Claims about the pipeline *)

\* the document is what a call of op has just returned
Returned(op) == pipe_last.op = op /\ document = pipe_last.ran.ret

\* C1: the pipeline is idempotent: run on a document it has returned, it
\* returns that document unchanged
C1_RunIsIdempotent ==
    [][(Returned("validate_and_fix_content") /\ runs' = runs + 1)
         => document' = document]_vars

\* the text of s behind the last c, all of s if there is none
AfterLast(s, c) ==
    SubSeq(s, Greatest({j \in 1..Len(s) : CharAt(s, j) = c} \cup {0}) + 1, Len(s))

\* the text of s before the first c, all of s if there is none
BeforeFirst(s, c) ==
    SubSeq(s, 1, Least({j \in 1..Len(s) : CharAt(s, j) = c} \cup {Len(s) + 1}) - 1)

\* the host a URL names: its netloc without user and port, in lower case
Host(url) == Lower(BeforeFirst(AfterLast(urlparse(url).netloc, "@"), ":"))

\* the host is one of the trusted domains, or lies under one
AllowListed(host) ==
    \E d \in 1..Len(trusted_domains) :
        \/ host = trusted_domains[d]
        \/ /\ Len(host) > Len(trusted_domains[d])
           /\ SubSeq(host, Len(host) - Len(trusted_domains[d]), Len(host))
                = "." \o trusted_domains[d]

\* the URLs of the markdown links [text](url) in s
LinkUrls(s) ==
    {Group(s, MatchAt(link_pattern, s, j, FALSE), 2) : j \in Hits(link_pattern, s, 1, FALSE)}

\* C2: after validate_and_clean_links every markdown link left in the
\* document has a URL whose host is allow-listed
C2_OnlyAllowListedHostsStayLinks ==
    Returned("validate_and_clean_links")
        => \A url \in LinkUrls(document.text) : AllowListed(Host(url))

\* C3: after validate_and_clean_links no pattern of the fake-link list
\* matches anywhere in the document
C3_NoFakePatternLeft ==
    Returned("validate_and_clean_links")
        => ~FoundAny(fake_link_patterns(pipeline_module), document.text, TRUE)

\* the pipeline was called with None or with the empty string
CalledOnNothing ==
    /\ pipe_last.op = "validate_and_fix_content"
    /\ (pipe_last.content.is_none \/ pipe_last.content.text = "")

\* C10: called with None or the empty string, the pipeline returns what it
\* was given, calls neither the scorer nor a stage, and does not raise
C10_NothingIsReturnedUntouched ==
    CalledOnNothing
        => /\ pipe_last.ran.ret = pipe_last.content
           /\ document = pipe_last.content
           /\ pipe_last.ran.calls = <<>>
           /\ ~pipe_last.ran.raised

\* the pipeline has been called with None and has returned None
C10_Witness ==
    /\ pipe_last.op = "validate_and_fix_content"
    /\ pipe_last.content = NoContent
    /\ document = NoContent
    /\ pipe_last.ran.calls = <<>>

-----------------------------------------------------------------------------
(* Claims about the date stage *)

\* a full date YYYY-MM-DD starts at position i of s
DateAt(s, i) ==
    /\ i + 9 <= Len(s)
    /\ \A k \in {0, 1, 2, 3, 5, 6, 8, 9} : CharAt(s, i + k) \in DigitChars
    /\ CharAt(s, i + 4) = "-"
    /\ CharAt(s, i + 7) = "-"

\* the year of the date at position i of s is one of 2020..2023
StaleAt(s, i) ==
    SubSeq(s, i, i + 3) \in {"2020", "2021", "2022", "2023"}

\* the date at position i of the input is in the output what the claim says
DateSettled(input, output, i, current_year) ==
    SubSeq(output, i, i + 9) =
        IF StaleAt(input, i)
        THEN ToString(current_year) \o SubSeq(input, i + 4, i + 9)
        ELSE SubSeq(input, i, i + 9)

\* C11: fix_date_consistency rewrites every full date YYYY-MM-DD whose year
\* is 2020..2023 to the current year and keeps its month and day, and
\* leaves every date with another year as it was.
C11_StaleDatesRewrittenOthersKept ==
    Returned("fix_date_consistency")
        => /\ Len(document.text) = Len(pipe_last.content.text)
           /\ \A i \in 1..Len(pipe_last.content.text) :
                DateAt(pipe_last.content.text, i)
                    => DateSettled(pipe_last.content.text, document.text, i, clock_year)

-----------------------------------------------------------------------------
(* Claims about the scorer *)

\* what the scorer gives points for
ScoredSignals ==
    {"over 500 characters", "over 2000 characters", "marker 1", "marker 2",
     "marker 3", "marker 4", "recent date", "no stale date", "no fake link",
     "no diagram corruption"}

StructuralSignals == <<"marker 1", "marker 2", "marker 3", "marker 4">>

\* one of the placeholder hosts is in the lower-cased document
FakeHostIn(lowered) ==
    \E host \in {"blog.csdn.net/username", "github.com/username",
                  "example.com", "xxx.com"} : Contains(lowered, host)

\* the document shows the signal
SignalHolds(signal, content) ==
    CASE signal = "over 500 characters" -> Len(content) > 500
      [] signal = "over 2000 characters" -> Len(content) > 2000
      [] signal = "recent date" ->
            \E i \in 1..Len(content) :
                DateAt(content, i)
                /\ SubSeq(content, i, i + 3) \in {"2025", "2026", "2027", "2028", "2029"}
      [] signal = "no stale date" ->
            ~\E i \in 1..Len(content) : DateAt(content, i) /\ StaleAt(content, i)
      [] signal = "no fake link" -> ~FakeHostIn(Lower(content))
      [] signal = "no diagram corruption" ->
            /\ ~\E u \in UpperChars : Contains(content, "## " \o TARGET \o " " \o u)
            /\ ~Contains(content, Fence \o "mermaid\n## " \o TARGET)
      [] OTHER ->
            \E k \in 1..Len(StructuralSignals) :
                signal = StructuralSignals[k] /\ Contains(content, structure_checks[k])

\* the points of a signal
SignalPoints(signal) ==
    CASE signal \in {"over 500 characters", "over 2000 characters", "no fake link"} -> 15
      [] signal \in {"recent date", "no stale date", "no diagram corruption"} -> 10
      [] OTHER -> 6

RECURSIVE PointsOf(_)
\* the points of a set of signals, each counted once
PointsOf(signals) ==
    IF signals = {} THEN 0
    ELSE LET signal == CHOOSE x \in signals : TRUE
         IN  SignalPoints(signal) + PointsOf(signals \ {signal})

\* the signals a document shows
SignalsOf(content) == {signal \in ScoredSignals : SignalHolds(signal, content)}

\* C12: calculate_quality_score returns 0 for the empty string, an integer
\* in 0..100 for every document, and the points of every signal the
\* document shows once, however often the signal occurs.
C12_ScoreBoundedEachSignalOnce ==
    pipe_last.op = "calculate_quality_score"
        => /\ pipe_last.ran.ret \in 0..100
           /\ pipe_last.content = Str("") => pipe_last.ran.ret = 0
           /\ (~pipe_last.content.is_none /\ pipe_last.content.text # "")
                => pipe_last.ran.ret = PointsOf(SignalsOf(pipe_last.content.text))

\* a document with the title marker in it twice was scored: 6 points for
\* the marker, 10 for no stale date, 15 for no fake link, 10 for no
\* corrupted diagram
C12_Witness ==
    /\ pipe_last.op = "calculate_quality_score"
    /\ pipe_last.content = Str(structure_checks[1] \o "\n" \o structure_checks[1] \o "\n")
    /\ pipe_last.ran.ret = 41

\* the signals of a document that are not structural markers
OtherSignals(content) ==
    {signal \in SignalsOf(content) :
        \A k \in 1..Len(StructuralSignals) : signal # StructuralSignals[k]}

\* the document with the structural marker k on a line of its own, in front
\* of it or behind it
MarkerAdded(content, k, in_front) ==
    IF in_front THEN structure_checks[k] \o "\n" \o content
    ELSE content \o "\n" \o structure_checks[k]

\* the score after the marker was added is not below the score before,
\* when the other signals are what they were
NotScoredLower(others_before, score_before, after) ==
    OtherSignals(after) = others_before
        => calculate_quality_score(after) >= score_before

\* no marker the document lacks lowers the score when it is added
NoMarkerLowers(content, others, score) ==
    \A k \in 1..Len(structure_checks) : \A in_front \in BOOLEAN :
        ~Contains(content, structure_checks[k])
            => NotScoredLower(others, score, MarkerAdded(content, k, in_front))

\* C13: adding one structural marker to a document that lacks it, with
\* every other signal as it was, never lowers the score.
C13_MarkerNeverLowersScore ==
    (pipe_last.op = "calculate_quality_score" /\ ~pipe_last.content.is_none)
        => NoMarkerLowers(pipe_last.content.text,
                          OtherSignals(pipe_last.content.text), pipe_last.ran.ret)

\* a document past 2000 characters with no marker was scored 65, and with
\* the Gantt marker behind it, every other signal as before, it scores 71
C13_Witness ==
    /\ pipe_last.op = "calculate_quality_score"
    /\ pipe_last.content = Str(Repeat("lorem ipsum ", 168))
    /\ pipe_last.ran.ret = 65
    /\ OtherSignals(MarkerAdded(pipe_last.content.text, 4, FALSE))
           = OtherSignals(pipe_last.content.text)
    /\ calculate_quality_score(MarkerAdded(pipe_last.content.text, 4, FALSE)) = 71

-----------------------------------------------------------------------------
(* Claims about the order of the stages *)

\* the four stages in the order of the pipeline, and the fix each records
StageNames ==
    <<"fix_mermaid_syntax", "validate_and_clean_links",
      "fix_date_consistency", "fix_formatting_issues">>

FixNames ==
    <<"Fixed Mermaid diagram syntax", "Cleaned fake links",
      "Updated expired dates", "Fixed formatting issues">>

\* what goes into the first stage and what comes out of each, every stage
\* given the output of the one before
FormattingOutput(content, s1, s2, s3) == <<content, s1, s2, s3, fix_formatting_issues(s3)>>

DateOutput(year, content, s1, s2) ==
    FormattingOutput(content, s1, s2, fix_date_consistency(year, s2))

LinkOutput(module, year, content, s1) ==
    DateOutput(year, content, s1, validate_and_clean_links(module, s1))

StageOutputs(module, year, content) ==
    LinkOutput(module, year, content, fix_mermaid_syntax(content))

RECURSIVE FixesFrom(_, _)
\* the fixes of the stages k..4 whose output is not their input, in order
FixesFrom(outputs, k) ==
    IF k > Len(FixNames) THEN <<>>
    ELSE (IF outputs[k + 1] # outputs[k] THEN <<FixNames[k]>> ELSE <<>>)
         \o FixesFrom(outputs, k + 1)

\* the run called each stage once, in order, returned the output of the
\* last and recorded the fixes of the stages that changed their input
StagesChained(ran, outputs) ==
    /\ ~ran.raised
    /\ SelectSeq(ran.calls, LAMBDA call : call # "calculate_quality_score") = StageNames
    /\ ran.ret = Str(outputs[5])
    /\ ran.fixes_applied = FixesFrom(outputs, 1)

\* C14: on non-empty content validate_and_fix_content runs the four stages
\* once each, diagrams, links, dates, formatting, each on the output of the
\* one before and whether or not an earlier stage changed anything, and
\* records the name of a fix exactly when the stage's output differs from
\* its input, in the order of the stages.
C14_StagesChainedInOrder ==
    (pipe_last.op = "validate_and_fix_content" /\ ~CalledOnNothing)
        => StagesChained(pipe_last.ran,
                         StageOutputs(pipeline_module, clock_year, pipe_last.content.text))

\* a run in which the diagram stage and the date stage changed the document
\* and the link stage between them did not
C14_Witness ==
    /\ pipe_last.op = "validate_and_fix_content"
    /\ pipe_last.content = Str("A-->B" \o "2021-01-01")
    /\ pipe_last.ran.fixes_applied = <<FixNames[1], FixNames[3]>>
    /\ pipe_last.ran.ret = Str("A --> B2026-01-01")

-----------------------------------------------------------------------------
(* Claims about failures *)

\* what a call that raised left in place of a return value
Exceptions == {"AttributeError", "TypeError"}

\* C15: no public operation lets an exception escape: the pipeline, the
\* scorer, parse_plan_content, get_editable_sections, update_section,
\* get_modified_content, get_edit_history and reset_to_original return a
\* value on every input, the empty string and None among them.
C15_NoOperationRaises ==
    /\ last.ret \notin Exceptions
    /\ ~pipe_last.ran.raised
\* C16: when the rebuild throws inside update_section, no exception leaves
\* update_section and get_modified_content() is the original document from
\* then on, whatever an earlier edit had left in it.
C16_RebuildFailureFallsBackToOriginal ==
    [][(/\ last'.op = "update_section"
        /\ last'.ret # "False"
        /\ RebuildRaises(original_content, sections'))
        => /\ last'.ret = "True"
           /\ get_modified_content' = original_content]_vars

\* get_modified_content() has returned the original document after one
\* edit that changed the document and one that made the rebuild throw
C16_Witness ==
    /\ last.op = "get_modified_content"
    /\ last.ret = original_content
    /\ original_content = plan_content
    /\ RebuildRaises(original_content, sections)
    /\ Len(edit_history) = 2
    /\ edit_history[1].new_content = "y\nz"
    /\ edit_history[2].new_content = NoText

-----------------------------------------------------------------------------
(* Claims about the shared editor *)

\* user u makes an update in this step, with the plan of another user
\* parsed last
UpdatesAfterOthersParse(u) ==
    /\ parsed_by \notin {"", u}
    /\ caller' = u
    /\ last'.op = "update_section"

\* C17: the one editor is shared by all users: when B's plan was parsed
\* after A's, A's update_section acts on the editor state of B's plan, so A
\* is answered with content built from B's plan, or A's id is rejected.
C17_UpdateActsOnTheOthersPlan ==
    [][\A u \in Users :
          UpdatesAfterOthersParse(u)
              => /\ original_content' = users[parsed_by].plan
                 /\ original_content' # users[u].plan
                 /\ \/ users'[u].got = UpdateFailed
                    \/ users'[u].got = get_modified_content']_vars

\* A was shown the sections of "# T" and "p", B's plan "# U" and "- i" was
\* parsed, and A's edit of the heading is answered with B's list under it
C17_Witness ==
    /\ caller = "A"
    /\ parsed_by = "B"
    /\ users["A"].plan = "# T\np"
    /\ last = Called("update_section", "section_1", "y\nz", "True")
    /\ users["A"].got = "y\nz\n- i"

-----------------------------------------------------------------------------
(* Claims about successive edits *)

\* the sections whose range starts at line i (counted from 0)
StartingAt(secs, i) == {k \in 1..Len(secs) : secs[k].start_line = i}

RECURSIVE Spliced(_, _, _)
\* the lines from line i on, with the range of every section replaced by
\* the current content of the section and every other line copied
Spliced(lines, secs, i) ==
    IF i >= Len(lines) THEN <<>>
    ELSE IF StartingAt(secs, i) = {} THEN <<lines[i + 1]>> \o Spliced(lines, secs, i + 1)
    ELSE LET section == secs[CHOOSE k \in StartingAt(secs, i) : TRUE]
         IN  Split(section.content, "\n") \o Spliced(lines, secs, section.end_line + 1)

\* the line range of every section
Ranges(secs) == [k \in 1..Len(secs) |-> <<secs[k].start_line, secs[k].end_line>>]

\* C18: after a successful update_section, the first or a later one, every
\* section has the line range the parse gave it, and get_modified_content()
\* is the original lines with the range of every section replaced by the
\* section's current content and every line outside the ranges copied.
C18_EditsSplicedByOriginalRanges ==
    (last.op = "update_section" /\ last.ret = "True")
        => /\ Ranges(sections) = Ranges(ParseSections(original_content))
           /\ get_modified_content
                = Join(Spliced(Split(original_content, "\n"), sections, 0), "\n")

-----------------------------------------------------------------------------
(* Claims about the diagram stage *)

\* an arrow starts at position i of s
ArrowAt(s, i) == i + 2 <= Len(s) /\ SubSeq(s, i, i + 2) = "-->"

\* exactly one blank stands before position i of s, and exactly one from
\* position j on
OneBlankBefore(s, i) ==
    /\ i > 1 /\ CharAt(s, i - 1) = " "
    /\ i > 2 => CharAt(s, i - 2) # " "

OneBlankFrom(s, j) ==
    /\ j <= Len(s) /\ CharAt(s, j) = " "
    /\ j < Len(s) => CharAt(s, j + 1) # " "

\* C19: after fix_mermaid_syntax every arrow --> has exactly one blank on
\* each side, whether it had none or one before.
C19_ArrowsSingleSpaced ==
    Returned("fix_mermaid_syntax")
        => \A i \in 1..Len(document.text) :
              ArrowAt(document.text, i)
                  => /\ OneBlankBefore(document.text, i)
                     /\ OneBlankFrom(document.text, i + 3)

\* a node label with doubled quotes, ID[""text""], is somewhere in s
DoubledQuotesIn(s) ==
    \E i \in 1..Len(s), j \in 1..Len(s) :
        /\ i > 1 /\ CharAt(s, i - 1) \in UpperChars
        /\ j > i + 4
        /\ SubSeq(s, i, i + 2) = "[\"\""
        /\ SubSeq(s, j - 2, j) = "\"\"]"
        /\ \A k \in (i + 3)..(j - 3) : CharAt(s, k) # "\""

\* C20: after fix_mermaid_syntax no node label has doubled quotes: a label
\* with doubled quotes or with none around non-ASCII text comes out as
\* ID["text"], and a label already written ID["text"] stays as it is.
C20_NoDoubledQuotesLeft ==
    Returned("fix_mermaid_syntax") => ~DoubledQuotesIn(document.text)

-----------------------------------------------------------------------------
(* Claims about the formatting stage *)

\* the lengths of the runs of line breaks of s, each run taken whole
NewlineRuns(s) ==
    {TrailRun(s, j, {"\n"}) :
        j \in {i \in 1..Len(s) : CharAt(s, i) = "\n"
                                  /\ (i = Len(s) \/ CharAt(s, i + 1) # "\n")}}

\* C21: fix_formatting_issues collapses every run of four or more line
\* breaks to exactly two: a run of more than two in its output is a run the
\* input already had with fewer than four.
C21_LongBlankRunsCollapsedToTwo ==
    Returned("fix_formatting_issues")
        => \A run \in NewlineRuns(document.text) :
              run > 2 => run \in NewlineRuns(pipe_last.content.text)

-----------------------------------------------------------------------------
(* Claims about fake links *)

\* what a piece of a document, a word with no blank in it, is to become: a
\* markdown link [text](url) its text in bold with the note on standards,
\* a bare URL the note on best practices, any other word itself
FakeLinkReplaced(word) ==
    IF StartsWith(word, "[")
    THEN "**" \o SubSeq(word, 2, Find(word, "]") - 1)
              \o "** (Based on industry standards)"
    ELSE IF StartsWith(word, "http") THEN "(Based on industry best practices)"
    ELSE word

\* the document with every fake link replaced, word by word
FakeLinksReplaced(content) ==
    LET words == Split(content, " ")
    IN  Join([k \in 1..Len(words) |-> FakeLinkReplaced(words[k])], " ")

\* C22: the pass over the fake-link patterns replaces every fake link
\* written [text](url) by '**text** (Based on industry standards)' and every
\* fake URL written bare by '(Based on industry best practices)', in the
\* copy of utils.py and in the copy of app.py.
C22_FakeLinksReplacedInBothCopies ==
    Returned("validate_and_clean_links")
        => CleanFakeLinks(fake_link_patterns(pipeline_module), 1, pipe_last.content.text)
               = FakeLinksReplaced(pipe_last.content.text)

-----------------------------------------------------------------------------
(* Claims about section ids *)

\* the two parts of a section id, before and after the underscore
IdPrefix(section) == Split(section.section_id, "_")[1]

IdCounter(section) ==
    CHOOSE n \in 0..(MaxLines + 1) : ToString(n) = Split(section.section_id, "_")[2]

\* C23: within one parse every section id is unique and is the name of the
\* section's type (heading, paragraph, list, code, table), an underscore and
\* a counter value; the counter is one for all types and grows strictly in
\* the order of the sections.
C23_IdsAreTypeNameAndGrowingCounter ==
    last.op = "parse_plan_content"
        => /\ \A j, k \in 1..Len(sections) :
                j # k => sections[j].section_id # sections[k].section_id
           /\ \A k \in 1..Len(sections) :
                /\ Len(Split(sections[k].section_id, "_")) = 2
                /\ \E n \in 1..(MaxLines + 1) :
                      ToString(n) = Split(sections[k].section_id, "_")[2]
                /\ IdPrefix(sections[k]) = sections[k].section_type
           /\ \A k \in 1..(Len(sections) - 1) :
                IdCounter(sections[k]) < IdCounter(sections[k + 1])

-----------------------------------------------------------------------------
(* Claims about the edit history *)

IsPrefix(h, g) == Len(h) <= Len(g) /\ SubSeq(g, 1, Len(h)) = h

\* C24: the edit history only grows at its end: a successful update_section
\* appends exactly one entry, a failed one appends none,
\* parse_plan_content leaves the list alone, no entry already there is
\* changed, removed or moved, and only reset_to_original empties the list;
\* get_edit_history gives the whole list, also past the ten entries the UI
\* shows.
HistoryStep ==
    /\ last'.op = "update_section" /\ last'.ret = "True"
          => /\ Len(edit_history') = Len(edit_history) + 1
             /\ IsPrefix(edit_history, edit_history')
             /\ edit_history'[Len(edit_history')].section_id = last'.section_id
             /\ edit_history'[Len(edit_history')].new_content = last'.content
    /\ last'.op = "update_section" /\ last'.ret = "False"
          => edit_history' = edit_history
    /\ last'.op = "parse_plan_content" => edit_history' = edit_history
    /\ last'.op = "get_edit_history"
          => edit_history' = edit_history /\ get_edit_history' = edit_history
    /\ ~IsPrefix(edit_history, edit_history')
          => last'.op = "reset_to_original" /\ edit_history' = <<>>

C24_HistoryAppendOnly == [][HistoryStep]_vars

\* a plan parsed again with eleven entries in the history
C24_Witness ==
    /\ last.op = "parse_plan_content"
    /\ Len(get_edit_history) > ShownHistory
    /\ \A k \in 1..Len(edit_history) : edit_history[k].timestamp = k

-----------------------------------------------------------------------------
(* Claims about the stages called by themselves *)

\* C25: each of the four stages, called by itself on the empty string or on
\* None, returns what it was given ("" for "", None for None) and does not
\* raise.
C25_StagesPassEmptyAndNoneThrough ==
    pipe_last.op \in DirectStages /\ pipe_last.content \in {Str(""), NoContent}
        => ~pipe_last.ran.raised /\ pipe_last.ran.ret = pipe_last.content

-----------------------------------------------------------------------------
(* Claims about fetch_knowledge_from_url_via_mcp *)

\* the characters of data that are not blank
NonBlank(data) ==
    IF data = NoText THEN 0
    ELSE Cardinality({i \in 1..Len(data) : CharAt(data, i) \notin SpaceChars})

\* the service succeeded with more than ten non-blank characters
Succeeded(result) ==
    ~result.raised /\ result.success /\ NonBlank(result.data) > MinKnowledge

\* C26: for a URL containing 'deepwiki.org' the DeepWiki service is called
\* first, and the Fetch service only if DeepWiki failed, raised or returned
\* ten or fewer non-blank characters; for any other URL DeepWiki is never
\* called; the function returns (true, data) only when the last service
\* called succeeded with more than ten non-blank characters, and (false,
\* message) otherwise.
C26_RoutedByUrlAndReturnsUsableData ==
    LET calls == fetching.calls
    IN  /\ Contains(fetching.url, "deepwiki.org") /\ calls # <<>>
              => calls[1].service = "deepwiki"
        /\ ~Contains(fetching.url, "deepwiki.org")
              => \A k \in 1..Len(calls) : calls[k].service # "deepwiki"
        /\ \A k \in 2..Len(calls) :
              calls[k].service = "fetch" => ~Succeeded(calls[k - 1].result)
        /\ fetching.at = "returned"
              => /\ calls # <<>>
                 /\ fetching.ret.ok
                       => /\ Succeeded(calls[Len(calls)].result)
                          /\ fetching.ret.text = calls[Len(calls)].result.data
                 /\ ~Succeeded(calls[Len(calls)].result)
                       => ~fetching.ret.ok /\ fetching.ret.text # NoText

-----------------------------------------------------------------------------
(* Claims about the modified content *)

\* C27: right after parse_plan_content(c), before any update_section,
\* get_modified_content() returns c, also when the editor had parsed and
\* edited another document before.
C27_ParsedPlanIsTheModifiedContent ==
    last.op = "parse_plan_content" /\ last.ret = "sections"
        => get_modified_content = last.content

\* the lines of text before line start_line and after line end_line of the
\* original are the lines around the n lines that replaced the range
FrameKept(orig, text, section, n) ==
    LET lines == Split(orig, "\n")
        out == Split(text, "\n")
    IN  /\ SubSeq(out, 1, section.start_line) = SubSeq(lines, 1, section.start_line)
        /\ SubSeq(out, section.start_line + n + 1, Len(out))
              = SubSeq(lines, section.end_line + 2, Len(lines))

\* C28: update_section changes only the lines of the target section's
\* range: every original line outside it (blank lines, indentation, the
\* lines of the other, unedited sections) stays as it was; an update of a
\* section with its own current content leaves get_modified_content() equal
\* to the original document.  Stated for an update of a plan whose sections
\* are as they were parsed.
C28_UpdateKeepsLinesOutsideRange ==
    [][(/\ last'.op = "update_section" /\ last'.ret = "True"
        /\ sections = ParseSections(original_content))
        => LET section == sections[FindSection(sections, last'.section_id)]
           IN  /\ FrameKept(original_content, get_modified_content', section,
                            Len(Split(last'.content, "\n")))
               /\ last'.content = section.content
                     => get_modified_content' = original_content]_vars

\* C29: after a successful update_section, get_modified_content() is the
\* rebuilt document, also when that is the empty string: the original
\* content is never returned in the place of an edited result that is empty.
C29_EmptyEditedResultIsReturned ==
    (last.op = "update_section" /\ last.ret = "True")
        => get_modified_content = _rebuild_content(original_content, sections)

-----------------------------------------------------------------------------
(* Claims about what the date stage leaves behind *)

\* C30: when the current year is 2024 or later, the output of
\* fix_date_consistency holds no YYYY-MM-DD with a year of 2020..2023,
\* whatever the input, stale dates that overlap or abut included.
C30_NoStaleDateInOutput ==
    Returned("fix_date_consistency") /\ clock_year >= 2024
        => \A i \in 1..Len(document.text) :
              ~(DateAt(document.text, i) /\ StaleAt(document.text, i))

====
